---------------------------- MODULE Spec2Model ----------------------------
(***************************************************************************)
(* Cyberia2000: client interpolation buffer, physics network client, seat  *)
(* control, relay server with Jolt physics worlds, fixed-step accumulator  *)
(* and weapon cooldowns, modelled as state machines.                       *)
(*                                                                         *)
(* Each subsystem has its own group of variables and its own               *)
(* specification (SpecBuffer, SpecClient, ...); a specification leaves the *)
(* variables of the other subsystems at their idle values.                 *)
(***************************************************************************)
EXTENDS Integers, Sequences, FiniteSets, TLC

VARIABLES
    \* ---- PhysicsStateBuffer (src/js/physics-network-client.js:22-145)
    states,          \* this.states: sequence of state samples
    maxStates,       \* this.maxStates
    addCount,        \* number of addState calls so far (arrival counter)
    lastQuery,       \* the last getInterpolatedState call and what it returned
    \* ---- PhysicsNetworkClient (src/js/physics-network-client.js:150-415)
    enabled,              \* this.enabled
    serverPhysicsEnabled, \* this.serverPhysicsEnabled
    entityBuffers,        \* this.entityBuffers: entityId -> buffer states
    localEntities,        \* this.localEntities
    hasStateCallback,     \* this.onEntityStateUpdate is set
    pendingPlayerInput,   \* this.pendingPlayerInput (0 = null)
    pendingVehicleInput,  \* this.pendingVehicleInput (0 = null)
    currentVehicleId,     \* this.currentVehicleId (0 = null)
    lastInputSendTime,    \* this.lastInputSendTime
    statesReceived,       \* this.statesReceived
    clock,                \* Date.now()
    notified,             \* entities onEntityStateUpdate was invoked for by the last update
    skipped,              \* local entities the last handlePhysicsState skipped
    sentInputs,           \* messages passed to networkManager.send by the last update
    \* ---- PlayerController seat control / VehicleManager seats
    seatOccupant,         \* seat.occupant for every seat of every vehicle
    currentVehicle,       \* playerController.currentVehicle
    currentSeat,          \* playerController.currentSeat
    hoverVehicle,         \* playerController.hoverVehicle (its vehicle)
    panel,                \* the interaction panel whose callback is installed
    bodyDisabled,         \* physicsBody.noCollisions and physicsBody.noGravity
    lastSeatCall,         \* the last seat-control call and what it reported
    \* ---- relay server with Jolt physics (src/unnamed/part_003)
    sockOpen,             \* ws.readyState === OPEN, per socket
    closeEvents,          \* 'error'/'close' events of a socket not yet delivered
    awaiting,             \* handshakes suspended at await initializePhysicsWorld
    rooms,                \* rooms: roomId -> RoomState
    clientRooms,          \* clientRooms: socket -> roomId
    clientInfo,           \* clientInfo: socket -> info record present
    physicsWorlds,        \* physicsWorlds: roomId -> JoltPhysicsWorld
    sent,                 \* messages sent by the last handler
    lastCall,             \* the last handler that ran
    crashed,              \* the process died of an unhandled rejection
    handshakes,           \* number of handshake messages received so far
    \* ---- one JoltPhysicsWorld (src/server/jolt-physics-world.js)
    joltInterface,        \* this.joltInterface is non-null
    accumulator,          \* this.accumulator, in units of 1/240 s
    stepCount,            \* this.stepCount
    lastStep,             \* deltaTime and fixed steps of the last step() call
    \* ---- one vehicle's weapons (src/js/vehicle-manager.js)
    vehicleType,          \* vehicle.type
    weaponCooldown,       \* vehicle.weaponCooldown, in units of 0.02 s
    mgCooldown,           \* vehicle.mgCooldown
    bombCooldown,         \* vehicle.bombCooldown
    elapsed,              \* simulated time since each weapon's last shot
    lastFire,             \* the last fireWeapon/dropBomb call and what it emitted
    \* ---- PhysicsSystem with one registered body (src/js/physics.js)
    body,                 \* the body: position.y, velocity, grounded, noGravity
    colliders,            \* the box colliders near the body
    lastIntegrate,        \* delta of the last step and the body before it
    integrations,         \* number of step() calls so far
    velocityWrites,       \* number of velocity writes so far
    \* ---- terrain height cache (src/unnamed/part_002)
    HEIGHT_CACHE,         \* HEIGHT_CACHE: cache key -> cached height
    firstHeight,          \* the first calculateNaturalTerrainHeight call and its result
    lastHeight,           \* the last calculateNaturalTerrainHeight call and its result
    \* ---- one networked vehicle on several clients (src/js/vehicle-manager.js)
    netSeatOccupant,      \* seat.occupant of every seat in every client's copy
    netCurrentSeat,       \* playerController.currentSeat of every client
    netVehicle,           \* body position and velocity of every client's copy
    lastVehicleUpdate,    \* the last vehicle update delivered to a remote copy
    \* ---- input sending of one client (src/js/physics-network-client.js)
    submitted,            \* the last sendPlayerInput / sendVehicleInput call and the last one accepted
    txLog,                \* the last transmissions of player_input and vehicle_input
    \* ---- one body meeting one box collider (src/js/physics.js)
    contactBody,          \* the body: position, velocity, radius, height, isVehicle
    contactBox,           \* the box collider
    contactResult,        \* the branch the last resolveCollisions took
    \* ---- the server's physics loop (src/unnamed/part_003)
    serverNow,            \* Date.now() on the server
    lastPhysicsTime,      \* lastPhysicsTime
    lastBroadcastTime,    \* lastBroadcastTime
    loopWorlds,           \* physicsWorlds: room id -> stepCount of its world
    loopTicks,            \* number of physicsLoop runs so far
    lastBroadcast,        \* the last broadcastPhysicsState: when, gap to the one before, stepCount sent per room
    \* ---- the body maps of one JoltPhysicsWorld (src/server/jolt-physics-world.js)
    joltWorld             \* bodies, entityBodies and the next body id of the world

bufVars == <<states, maxStates, addCount, lastQuery>>

cliVars == <<enabled, serverPhysicsEnabled, entityBuffers, localEntities,
             hasStateCallback, pendingPlayerInput, pendingVehicleInput,
             currentVehicleId, lastInputSendTime, statesReceived, clock,
             notified, skipped, sentInputs>>

seatVars == <<seatOccupant, currentVehicle, currentSeat, hoverVehicle, panel,
              bodyDisabled, lastSeatCall>>

srvVars == <<sockOpen, closeEvents, awaiting, rooms, clientRooms, clientInfo,
             physicsWorlds, sent, lastCall, crashed, handshakes>>

worldVars == <<joltInterface, accumulator, stepCount, lastStep>>

weaponVars == <<vehicleType, weaponCooldown, mgCooldown, bombCooldown, elapsed,
                lastFire>>

physVars == <<body, colliders, lastIntegrate, integrations, velocityWrites>>

terrainVars == <<HEIGHT_CACHE, firstHeight, lastHeight>>

netSeatVars == <<netSeatOccupant, netCurrentSeat, netVehicle, lastVehicleUpdate>>

inputVars == <<submitted, txLog>>

contactVars == <<contactBody, contactBox, contactResult>>

loopVars == <<serverNow, lastPhysicsTime, lastBroadcastTime, loopWorlds, loopTicks, lastBroadcast>>

bodyVars == <<joltWorld>>

vars == <<states, maxStates, addCount, lastQuery,
          enabled, serverPhysicsEnabled, entityBuffers, localEntities,
          hasStateCallback, pendingPlayerInput, pendingVehicleInput,
          currentVehicleId, lastInputSendTime, statesReceived, clock,
          notified, skipped, sentInputs,
          seatOccupant, currentVehicle, currentSeat, hoverVehicle, panel,
          bodyDisabled, lastSeatCall,
          sockOpen, closeEvents, awaiting, rooms, clientRooms, clientInfo,
          physicsWorlds, sent, lastCall, crashed, handshakes,
          joltInterface, accumulator, stepCount, lastStep,
          vehicleType, weaponCooldown, mgCooldown, bombCooldown, elapsed,
          lastFire,
          body, colliders, lastIntegrate, integrations, velocityWrites,
          HEIGHT_CACHE, firstHeight, lastHeight,
          netSeatOccupant, netCurrentSeat, netVehicle, lastVehicleUpdate,
          submitted, txLog,
          contactBody, contactBox, contactResult,
          serverNow, lastPhysicsTime, lastBroadcastTime, loopWorlds, loopTicks, lastBroadcast,
          joltWorld>>

\* what the steps of one subsystem leave alone
notBuf    == <<cliVars, seatVars, srvVars, worldVars, weaponVars, physVars, terrainVars, netSeatVars, inputVars, contactVars, loopVars, bodyVars>>
notClient == <<bufVars, seatVars, srvVars, worldVars, weaponVars, physVars, terrainVars, netSeatVars, inputVars, contactVars, loopVars, bodyVars>>
notSeats  == <<bufVars, cliVars, srvVars, worldVars, weaponVars, physVars, terrainVars, netSeatVars, inputVars, contactVars, loopVars, bodyVars>>
notServer == <<bufVars, cliVars, seatVars, worldVars, weaponVars, physVars, terrainVars, netSeatVars, inputVars, contactVars, loopVars, bodyVars>>
notWorld  == <<bufVars, cliVars, seatVars, srvVars, weaponVars, physVars, terrainVars, netSeatVars, inputVars, contactVars, loopVars, bodyVars>>
notWeapon == <<bufVars, cliVars, seatVars, srvVars, worldVars, physVars, terrainVars, netSeatVars, inputVars, contactVars, loopVars, bodyVars>>
notPhysics == <<bufVars, cliVars, seatVars, srvVars, worldVars, weaponVars, terrainVars, netSeatVars, inputVars, contactVars, loopVars, bodyVars>>
notTerrain == <<cliVars, seatVars, srvVars, worldVars, weaponVars, physVars, bufVars, netSeatVars, inputVars, contactVars, loopVars, bodyVars>>
notNetSeats == <<cliVars, seatVars, srvVars, worldVars, weaponVars, physVars, terrainVars, bufVars, inputVars, contactVars, loopVars, bodyVars>>
notInput == <<bufVars, srvVars, worldVars, weaponVars, physVars, terrainVars, netSeatVars, contactVars, loopVars, bodyVars>>
notContact == <<cliVars, seatVars, srvVars, worldVars, weaponVars, physVars, terrainVars, netSeatVars, inputVars, bufVars, loopVars, bodyVars>>
notLoop == <<cliVars, seatVars, srvVars, worldVars, weaponVars, physVars, terrainVars, netSeatVars, inputVars, contactVars, bufVars, bodyVars>>
notBodies == <<cliVars, seatVars, srvVars, worldVars, weaponVars, physVars, terrainVars, netSeatVars, inputVars, contactVars, loopVars, bufVars>>

Abs(n) == IF n < 0 THEN -n ELSE n
Min2(a, b) == IF a <= b THEN a ELSE b
Max2(a, b) == IF a >= b THEN a ELSE b

(***************************************************************************)
(* PhysicsStateBuffer                                                      *)
(*                                                                         *)
(* A sample is [id, timestamp, x]: id is the identity of the object handed *)
(* to addState (its arrival number), x stands for each linearly            *)
(* interpolated component (lerpState treats position, velocity and         *)
(* angularVelocity components with the same formula).  Interpolated values *)
(* are exact rationals: a pair numerator / denominator.                    *)
(***************************************************************************)
MaxCap  == 3    \* largest maxStates a buffer is constructed with
MaxTime == 2    \* sample timestamps range over 0..MaxTime
MaxPos  == 1    \* sample positions range over 0..MaxPos
MaxAdds == 4    \* addState calls per behaviour
RtAhead == 2    \* renderTime ranges over 0..MaxTime+RtAhead

DefaultMaxStates == 20

NoSample == [id |-> 0, timestamp |-> 0, x |-> 0]

\* addState(state): push, then shift when over capacity
addState_evictNewest(sts, cap, s) ==
    LET pushed == Append(sts, s)
    IN  IF Len(pushed) > cap THEN SubSeq(pushed, 1, Len(pushed) - 1) ELSE pushed

addState(sts, cap, s) ==
    LET pushed == Append(sts, s)
    IN  IF Len(pushed) > cap THEN Tail(pushed) ELSE pushed

\* Math.max(0, Math.min(1.5, t)) for t = num/den, den > 0
clampT_unbounded(num, den) ==
    IF num < 0 THEN <<0, 1>> ELSE <<num, den>>

clampT(num, den) ==
    IF num < 0 THEN <<0, 1>>
    ELSE IF 2 * num > 3 * den THEN <<3, 2>>
    ELSE <<num, den>>

\* the scan of getInterpolatedState: indices i with
\* states[i].timestamp <= renderTime <= states[i+1].timestamp
Brackets(sts, rt) ==
    {i \in 1..(Len(sts) - 1) :
        sts[i].timestamp <= rt /\ sts[i + 1].timestamp >= rt}

FirstBracket(sts, rt) ==
    CHOOSE i \in Brackets(sts, rt) : \A j \in Brackets(sts, rt) : i <= j

\* lerp factor for the chosen pair
lerpFactor_noDuration(before, after, rt) ==
    clampT(rt - before.timestamp, 1)

lerpFactor(before, after, rt) ==
    LET duration == after.timestamp - before.timestamp
    IN  IF duration > 0 THEN clampT(rt - before.timestamp, duration)
        ELSE clampT(0, 1)

\* lerpState(a, b, t): a + (b - a) * t, as a rational over t's denominator
lerpState(a, b, t) ==
    [kind   |-> "lerp",
     sample |-> NoSample,
     before |-> a,
     after  |-> b,
     tn     |-> t[1],
     td     |-> t[2],
     xn     |-> a.x * t[2] + (b.x - a.x) * t[1],
     xd     |-> t[2]]

Returned(kind, s) ==
    [kind |-> kind, sample |-> s, before |-> NoSample, after |-> NoSample,
     tn |-> 0, td |-> 1, xn |-> s.x, xd |-> 1]

\* this.states[this.states.length - 1], the fallback of the scan
latestState_oldest(sts) == sts[1]

latestState(sts) == sts[Len(sts)]

getInterpolatedState_lerpSingle(sts, rt) ==
    IF Len(sts) = 0 THEN Returned("null", NoSample)
    ELSE IF Len(sts) = 1 THEN lerpState(sts[1], sts[1], clampT(rt, 1))
    ELSE Returned("state", sts[Len(sts)])

getInterpolatedState(sts, rt) ==
    IF Len(sts) < 2
    THEN IF Len(sts) = 1 THEN Returned("state", sts[1])
         ELSE Returned("null", NoSample)
    ELSE IF Brackets(sts, rt) # {}
         THEN LET i == FirstBracket(sts, rt)
              IN  lerpState(sts[i], sts[i + 1],
                            lerpFactor(sts[i], sts[i + 1], rt))
         ELSE IF rt > sts[Len(sts)].timestamp
              THEN lerpState(sts[Len(sts) - 1], sts[Len(sts)],
                             lerpFactor(sts[Len(sts) - 1], sts[Len(sts)], rt))
              ELSE Returned("state", latestState(sts))

NoQuery == [asked |-> FALSE, renderTime |-> 0, result |-> Returned("null", NoSample)]

BufInit ==
    /\ states = <<>>
    /\ maxStates \in 1..MaxCap
    /\ addCount = 0
    /\ lastQuery = NoQuery

BufIdle ==
    /\ states = <<>>
    /\ maxStates = DefaultMaxStates
    /\ addCount = 0
    /\ lastQuery = NoQuery

\* buffer.addState(state)
AddState ==
    /\ addCount < MaxAdds
    /\ \E ts \in 0..MaxTime, px \in 0..MaxPos :
          states' = addState(states, maxStates,
                             [id |-> addCount + 1, timestamp |-> ts, x |-> px])
    /\ addCount' = addCount + 1
    /\ lastQuery' = NoQuery
    /\ UNCHANGED maxStates
    /\ UNCHANGED notBuf

\* buffer.getInterpolatedState(renderTime)
GetInterpolatedState ==
    /\ \E rt \in 0..(MaxTime + RtAhead) :
          lastQuery' = [asked |-> TRUE, renderTime |-> rt,
                        result |-> getInterpolatedState(states, rt)]
    /\ UNCHANGED <<states, maxStates, addCount>>
    /\ UNCHANGED notBuf

NextBuffer == AddState \/ GetInterpolatedState

(***************************************************************************)
(* PhysicsNetworkClient                                                    *)
(*                                                                         *)
(* Time is counted in units of 50 ms.  Each entity buffer is a             *)
(* PhysicsStateBuffer with the default capacity, driven through addState   *)
(* and getInterpolatedState above.                                         *)
(***************************************************************************)
Entities      == {"e1", "e2"}   \* entity ids occurring in physics_state
MaxDeliveries == 2              \* physics_state messages per behaviour
MaxClock      == 3              \* Date.now() ranges over 0..MaxClock
MaxStamp      == 2              \* server timestamps range over 1..MaxStamp

inputSendRate      == 1         \* 50 ms
interpolationDelay == 2         \* 100 ms

EmptyBuffers == [e \in {} |-> <<>>]

CliInit ==
    /\ enabled = FALSE
    /\ serverPhysicsEnabled = FALSE
    /\ entityBuffers = EmptyBuffers
    /\ localEntities = {}
    /\ hasStateCallback = FALSE
    /\ pendingPlayerInput = 0
    /\ pendingVehicleInput = 0
    /\ currentVehicleId = 0
    /\ lastInputSendTime = 0
    /\ statesReceived = 0
    /\ clock = 0
    /\ notified = {}
    /\ skipped = {}
    /\ sentInputs = {}

\* initialize(): registers handlePhysicsState and enables the client
Initialize ==
    /\ ~enabled
    /\ enabled' = TRUE
    /\ UNCHANGED <<serverPhysicsEnabled, entityBuffers, localEntities,
                   hasStateCallback, pendingPlayerInput, pendingVehicleInput,
                   currentVehicleId, lastInputSendTime, statesReceived, clock,
                   notified, skipped, sentInputs>>
    /\ UNCHANGED notClient

\* setServerPhysicsEnabled(enabled, tickRate, broadcastRate)
SetServerPhysicsEnabled ==
    /\ \E b \in BOOLEAN : b # serverPhysicsEnabled /\ serverPhysicsEnabled' = b
    /\ UNCHANGED <<enabled, entityBuffers, localEntities,
                   hasStateCallback, pendingPlayerInput, pendingVehicleInput,
                   currentVehicleId, lastInputSendTime, statesReceived, clock,
                   notified, skipped, sentInputs>>
    /\ UNCHANGED notClient

\* client.onEntityStateUpdate = callback
SetStateCallback ==
    /\ ~hasStateCallback
    /\ hasStateCallback' = TRUE
    /\ UNCHANGED <<enabled, serverPhysicsEnabled, entityBuffers, localEntities,
                   pendingPlayerInput, pendingVehicleInput,
                   currentVehicleId, lastInputSendTime, statesReceived, clock,
                   notified, skipped, sentInputs>>
    /\ UNCHANGED notClient

\* buffer.addState({...bodyState, timestamp}) on an entity's buffer
bufferAdd_sorted(buf, sample) ==
    LET later == {i \in 1..Len(buf) : buf[i].timestamp > sample.timestamp}
        at == IF later = {} THEN Len(buf) + 1
              ELSE CHOOSE i \in later : \A k \in later : i <= k
    IN  SubSeq(buf, 1, at - 1) \o <<sample>> \o SubSeq(buf, at, Len(buf))

bufferAdd(buf, sample) == addState(buf, DefaultMaxStates, sample)

\* the loop body of handlePhysicsState for the bodies of one message:
\* local entities are skipped, every other entity gets the sample appended
\* to its buffer, which is created when missing
BuffersAfter_noLocalCheck(bufs, locals, bodies, sample) ==
    [e \in (DOMAIN bufs) \cup bodies |->
        IF e \in bodies
        THEN addState(IF e \in DOMAIN bufs THEN bufs[e] ELSE <<>>,
                      DefaultMaxStates, sample)
        ELSE bufs[e]]

BuffersAfter(bufs, locals, bodies, sample) ==
    [e \in (DOMAIN bufs) \cup (bodies \ locals) |->
        IF e \in bodies \ locals
        THEN bufferAdd(IF e \in DOMAIN bufs THEN bufs[e] ELSE <<>>, sample)
        ELSE bufs[e]]

\* handlePhysicsState(data, serverTimestamp), data.bodies an array; a body's
\* position is taken to be the server timestamp (bodies moving at unit speed)
HandlePhysicsState ==
    /\ enabled
    /\ statesReceived < MaxDeliveries
    /\ \E bodies \in SUBSET Entities, ts \in 1..MaxStamp :
          /\ entityBuffers' =
                BuffersAfter(entityBuffers, localEntities, bodies,
                             [id |-> statesReceived + 1, timestamp |-> ts, x |-> ts])
          /\ skipped' = bodies \cap localEntities
    /\ statesReceived' = statesReceived + 1
    /\ UNCHANGED <<enabled, serverPhysicsEnabled, localEntities,
                   hasStateCallback, pendingPlayerInput, pendingVehicleInput,
                   currentVehicleId, lastInputSendTime, clock,
                   notified, sentInputs>>
    /\ UNCHANGED notClient

\* setLocalEntity(entityId, isLocal)
SetLocalEntity ==
    /\ \E e \in Entities, isLocal \in BOOLEAN :
          /\ localEntities' = IF isLocal THEN localEntities \cup {e}
                                         ELSE localEntities \ {e}
          /\ localEntities' # localEntities
    /\ UNCHANGED <<enabled, serverPhysicsEnabled, entityBuffers,
                   hasStateCallback, pendingPlayerInput, pendingVehicleInput,
                   currentVehicleId, lastInputSendTime, statesReceived, clock,
                   notified, skipped, sentInputs>>
    /\ UNCHANGED notClient

\* getEntityState(entityId) for an entity that has a buffer
getEntityState(bufs, e, now) ==
    getInterpolatedState(bufs[e], now - interpolationDelay)

\* the entities update() invokes onEntityStateUpdate for
NotifiedBy_noLocalCheck(bufs, locals, now) ==
    {e \in DOMAIN bufs : getEntityState(bufs, e, now).kind # "null"}

NotifiedBy(bufs, locals, now) ==
    {e \in DOMAIN bufs :
        e \notin locals /\ getEntityState(bufs, e, now).kind # "null"}

\* the messages update() sends when the throttle interval has elapsed
InputsSent(player, vehicle, vehicleId) ==
    (IF player # 0 /\ vehicleId = 0 THEN {<<"player_input", player>>} ELSE {})
    \cup (IF vehicle # 0 THEN {<<"vehicle_input", vehicle>>} ELSE {})

\* the throttle test of update(): now - lastInputSendTime >= inputSendRate
throttleElapsed_always(now, last) == TRUE

throttleElapsed(now, last) == now - last >= inputSendRate

\* what update(delta) does to the client
update ==
    /\ IF ~enabled \/ ~serverPhysicsEnabled
       THEN /\ notified' = {}
            /\ sentInputs' = {}
            /\ UNCHANGED lastInputSendTime
       ELSE /\ IF throttleElapsed(clock, lastInputSendTime)
               THEN /\ lastInputSendTime' = clock
                    /\ sentInputs' = InputsSent(pendingPlayerInput,
                                                pendingVehicleInput,
                                                currentVehicleId)
               ELSE /\ sentInputs' = {}
                    /\ UNCHANGED lastInputSendTime
            /\ notified' = IF hasStateCallback
                           THEN NotifiedBy(entityBuffers, localEntities, clock)
                           ELSE {}
    /\ UNCHANGED <<enabled, serverPhysicsEnabled, entityBuffers, localEntities,
                   hasStateCallback, pendingPlayerInput, pendingVehicleInput,
                   currentVehicleId, statesReceived, clock, skipped>>

\* update(delta)
Update ==
    /\ update
    /\ UNCHANGED notClient

\* removeEntity(entityId)
RemoveEntity ==
    /\ \E e \in Entities :
          /\ e \in DOMAIN entityBuffers \/ e \in localEntities
          /\ entityBuffers' = [x \in (DOMAIN entityBuffers) \ {e} |-> entityBuffers[x]]
          /\ localEntities' = localEntities \ {e}
    /\ UNCHANGED <<enabled, serverPhysicsEnabled,
                   hasStateCallback, pendingPlayerInput, pendingVehicleInput,
                   currentVehicleId, lastInputSendTime, statesReceived, clock,
                   notified, skipped, sentInputs>>
    /\ UNCHANGED notClient

\* time passes
Tick ==
    /\ clock < MaxClock
    /\ clock' = clock + 1
    /\ UNCHANGED <<enabled, serverPhysicsEnabled, entityBuffers, localEntities,
                   hasStateCallback, pendingPlayerInput, pendingVehicleInput,
                   currentVehicleId, lastInputSendTime, statesReceived,
                   notified, skipped, sentInputs>>
    /\ UNCHANGED notClient

NextClient ==
    \/ Initialize
    \/ SetServerPhysicsEnabled
    \/ SetStateCallback
    \/ HandlePhysicsState
    \/ SetLocalEntity
    \/ Update
    \/ RemoveEntity
    \/ Tick

(***************************************************************************)
(* Seat control: PlayerController.interact / toggleVehicleSeat /           *)
(* enterVehicle and VehicleManager.findAvailableSeat / findVehicleTarget / *)
(* listSeats / vacateSeat / exitSeat.                                      *)
(*                                                                         *)
(* A client has one PlayerController; seat.occupant is only ever set to it *)
(* (enterVehicle) or to null.  A seat is <<vehicle, index>>.               *)
(***************************************************************************)
Vehicles == {"tank", "jeep"}

\* vehicle.seats: two seats on a tank, three on a jeep
Seats == {<<v, i>> : v \in Vehicles, i \in 0..2} \ {<<"tank", 2>>}

NoVehicle == "none"
NoSeat    == <<"none", 0>>
Player    == "player"
Nobody    == "null"

\* the buttons of a seat panel: seat indices, and -1 for 'exit'
ExitButton == -1
Buttons == {ExitButton, 0, 1, 2}

NoCall == [op |-> "none", target |-> NoSeat, occupied |-> FALSE,
           status |-> "", chat |-> "", threw |-> FALSE]

Call(op, target, occupied, status, chat) ==
    [op |-> op, target |-> target, occupied |-> occupied,
     status |-> status, chat |-> chat, threw |-> FALSE]

Threw(op) ==
    [op |-> op, target |-> NoSeat, occupied |-> FALSE,
     status |-> "", chat |-> "", threw |-> TRUE]

SeatInit ==
    /\ seatOccupant = [s \in Seats |-> Nobody]
    /\ currentVehicle = NoVehicle
    /\ currentSeat = NoSeat
    /\ hoverVehicle = NoVehicle
    /\ panel = "none"
    /\ bodyDisabled = FALSE
    /\ lastSeatCall = NoCall

\* listSeats(vehicle)[..].occupied
occupied(s) == seatOccupant[s] # Nobody

\* findVehicleTarget: the vehicle under the crosshair, null when it has no
\* free seat (or when nothing is hit)
HoverTargets == {v \in Vehicles : \E s \in Seats : s[1] = v /\ ~occupied(s)}

\* enterVehicle(vehicle, seat)
enterVehicle(seat) ==
    /\ seatOccupant' = [seatOccupant EXCEPT ![seat] = Player]
    /\ currentVehicle' = seat[1]
    /\ currentSeat' = seat
    /\ bodyDisabled' = TRUE

\* vacateSeat(currentVehicle, currentSeat) followed by enterVehicle(.., seat)
switchSeat(seat) ==
    /\ seatOccupant' = [seatOccupant EXCEPT ![currentSeat] = Nobody,
                                            ![seat] = Player]
    /\ currentVehicle' = seat[1]
    /\ currentSeat' = seat
    /\ bodyDisabled' = TRUE

\* exitSeat(vehicle, seat, playerController)
exitSeat ==
    /\ seatOccupant' = [seatOccupant EXCEPT ![currentSeat] = Nobody]
    /\ currentVehicle' = NoVehicle
    /\ currentSeat' = NoSeat
    /\ bodyDisabled' = FALSE

\* PlayerController.update: scanInteractions when on foot, else hover cleared
PcUpdate ==
    /\ IF currentVehicle # NoVehicle
       THEN hoverVehicle' = NoVehicle
       ELSE hoverVehicle' \in HoverTargets \cup {NoVehicle}
    /\ lastSeatCall' = Call("update", NoSeat, FALSE, "", "")
    /\ UNCHANGED <<seatOccupant, currentVehicle, currentSeat, panel, bodyDisabled>>
    /\ UNCHANGED notSeats

\* interact() (key E): opens the seat-switch panel when seated, the hover
\* panel when a vehicle is hovered; anything else shows no seat panel
Interact ==
    /\ IF currentVehicle # NoVehicle
       THEN /\ panel' = "seats"
            /\ lastSeatCall' = Call("interact", NoSeat, FALSE, "", "")
       ELSE IF hoverVehicle # NoVehicle
       THEN /\ panel' = "hover"
            /\ lastSeatCall' = Call("interact", NoSeat, FALSE, "", "")
       ELSE \/ /\ panel' = "none"
               /\ lastSeatCall' = Call("interact", NoSeat, FALSE, "", "")
            \/ /\ panel' = panel
               /\ lastSeatCall' = Call("interact", NoSeat, FALSE, "",
                                       "Nothing to interact with.")
    /\ UNCHANGED <<seatOccupant, currentVehicle, currentSeat, hoverVehicle,
                   bodyDisabled>>
    /\ UNCHANGED notSeats

\* the action callback of the hover-vehicle seat panel
HoverPanelAction_noCheck(a) ==
    IF hoverVehicle = NoVehicle
    THEN /\ lastSeatCall' = Threw("hover")
         /\ UNCHANGED <<seatOccupant, currentVehicle, currentSeat, panel,
                        bodyDisabled>>
    ELSE LET seat == <<hoverVehicle, a>> IN
         IF seat \notin Seats
         THEN /\ lastSeatCall' = Call("hover", NoSeat, FALSE, "Seat unavailable.", "")
              /\ UNCHANGED <<seatOccupant, currentVehicle, currentSeat, panel,
                             bodyDisabled>>
         ELSE /\ enterVehicle(seat)
              /\ panel' = "none"
              /\ lastSeatCall' = Call("hover", seat, occupied(seat), "", "")

HoverPanelAction(a) ==
    IF hoverVehicle = NoVehicle
    THEN /\ lastSeatCall' = Threw("hover")
         /\ UNCHANGED <<seatOccupant, currentVehicle, currentSeat, panel,
                        bodyDisabled>>
    ELSE LET seat == <<hoverVehicle, a>> IN
         IF seat \notin Seats
         THEN /\ lastSeatCall' = Call("hover", NoSeat, FALSE, "Seat unavailable.", "")
              /\ UNCHANGED <<seatOccupant, currentVehicle, currentSeat, panel,
                             bodyDisabled>>
         ELSE IF occupied(seat)
         THEN /\ lastSeatCall' = Call("hover", seat, TRUE, "Seat unavailable.", "")
              /\ UNCHANGED <<seatOccupant, currentVehicle, currentSeat, panel,
                             bodyDisabled>>
         ELSE /\ enterVehicle(seat)
              /\ panel' = "none"
              /\ lastSeatCall' = Call("hover", seat, FALSE, "", "")

\* the action callback of the in-vehicle seat-switch panel
SeatPanelAction(a) ==
    IF currentVehicle = NoVehicle
    THEN /\ lastSeatCall' = Threw("switch")
         /\ UNCHANGED <<seatOccupant, currentVehicle, currentSeat, panel,
                        bodyDisabled>>
    ELSE IF a = ExitButton
    THEN /\ exitSeat
         /\ panel' = "none"
         /\ lastSeatCall' = Call("exit", NoSeat, FALSE, "", "")
    ELSE LET seat == <<currentVehicle, a>> IN
         IF seat \notin Seats
         THEN /\ lastSeatCall' = Call("switch", NoSeat, FALSE, "Seat unavailable.", "")
              /\ UNCHANGED <<seatOccupant, currentVehicle, currentSeat, panel,
                             bodyDisabled>>
         ELSE IF seat = currentSeat
         THEN /\ lastSeatCall' = Call("switch", seat, occupied(seat),
                                      "Already in that seat.", "")
              /\ UNCHANGED <<seatOccupant, currentVehicle, currentSeat, panel,
                             bodyDisabled>>
         ELSE IF occupied(seat)
         THEN /\ lastSeatCall' = Call("switch", seat, TRUE, "Seat occupied.", "")
              /\ UNCHANGED <<seatOccupant, currentVehicle, currentSeat, panel,
                             bodyDisabled>>
         ELSE /\ switchSeat(seat)
              /\ panel' = "none"
              /\ lastSeatCall' = Call("switch", seat, FALSE, "", "")

\* a button of the open panel is pressed
PanelAction ==
    /\ panel # "none"
    /\ \E a \in Buttons :
          IF panel = "hover"
          THEN a # ExitButton /\ HoverPanelAction(a)
          ELSE SeatPanelAction(a)
    /\ UNCHANGED hoverVehicle
    /\ UNCHANGED notSeats

\* the close callback of either panel: hideInteractionPanel()
PanelClose ==
    /\ panel # "none"
    /\ panel' = "none"
    /\ lastSeatCall' = Call("close", NoSeat, FALSE, "", "")
    /\ UNCHANGED <<seatOccupant, currentVehicle, currentSeat, hoverVehicle,
                   bodyDisabled>>
    /\ UNCHANGED notSeats

\* findAvailableSeat(position, 5.5) for a player with the seats inRange
\* closer than the radius: the free seats it can return (the nearest one)
findAvailableSeat(inRange) == {s \in inRange : ~occupied(s)}

\* toggleVehicleSeat()
ToggleVehicleSeat ==
    /\ IF currentVehicle # NoVehicle
       THEN /\ exitSeat
            /\ lastSeatCall' = Call("exit", NoSeat, FALSE, "", "")
       ELSE \E inRange \in SUBSET Seats :
              IF findAvailableSeat(inRange) # {}
              THEN \E seat \in findAvailableSeat(inRange) :
                      /\ enterVehicle(seat)
                      /\ lastSeatCall' = Call("toggle", seat, occupied(seat), "", "")
              ELSE /\ lastSeatCall' =
                         IF inRange # {}
                         THEN Call("toggle", CHOOSE s \in inRange : TRUE, TRUE,
                                   "", "No vehicle nearby.")
                         ELSE Call("toggle", NoSeat, FALSE, "", "No vehicle nearby.")
                   /\ UNCHANGED <<seatOccupant, currentVehicle, currentSeat,
                                  bodyDisabled>>
    /\ UNCHANGED <<hoverVehicle, panel>>
    /\ UNCHANGED notSeats

NextSeats ==
    \/ PcUpdate
    \/ Interact
    \/ PanelAction
    \/ PanelClose
    \/ ToggleVehicleSeat

(***************************************************************************)
(* Relay server with Jolt physics (src/unnamed/part_003): rooms,           *)
(* clientRooms, clientInfo, physicsWorlds; handleHandshake (async, it      *)
(* suspends at await initializePhysicsWorld), handleDisconnect,            *)
(* handleSpawnPlayer.  A client's clientId is identified with its socket.  *)
(***************************************************************************)
Clients == {"c1", "c2"}
RoomIds == {"r1", "r2"}
MaxBodies == 4
MaxHandshakes == 3
MaxCommandVehicles == 1

NoRoom   == "none"
NoClient == "null"

\* SERVER_VEHICLES, in creation order
SERVER_VEHICLES == <<"tank", "helicopter", "jeep">>

PlayerEntity(c)  == <<"player", c>>
VehicleEntity(i) == <<"vehicle", SERVER_VEHICLES[i]>>
EntityIds == {PlayerEntity(c) : c \in Clients}
                \cup {VehicleEntity(i) : i \in 1..Len(SERVER_VEHICLES)}

SeqSet(s) == {s[i] : i \in 1..Len(s)}
SeqRemove(s, x) == SelectSeq(s, LAMBDA y : y # x)
MapPut(m, k, v) == [x \in DOMAIN m \cup {k} |-> IF x = k THEN v ELSE m[x]]
MapDelete(m, k) == [x \in DOMAIN m \ {k} |-> m[x]]
EmptyMap == [x \in {} |-> 0]

\* new RoomState(roomId)
RoomState == [clients |-> <<>>, players |-> {}, vehicles |-> {},
              hostClientId |-> NoClient]

\* RoomState.addClient(client, clientId)
addClient(room, c) ==
    [room EXCEPT !.clients = IF c \in SeqSet(@) THEN @ ELSE Append(@, c),
                 !.hostClientId = IF @ = NoClient THEN c ELSE @]

\* RoomState.removeClient(client, clientId), with clientInfo as it is then
removeClient(room, c, info) ==
    LET left == SeqRemove(room.clients, c) IN
    [room EXCEPT !.clients = left,
                 !.hostClientId =
                     IF @ = c /\ Len(left) > 0 /\ info[left[1]]
                     THEN left[1] ELSE @]

\* new JoltPhysicsWorld() after initialize() and createGroundPlane(0)
NewWorld == [joltInterface |-> TRUE, bodies |-> {}, entityBodies |-> EmptyMap,
             nextBodyId |-> 1]

\* createBoxBody / createCapsuleBody / createVehicle: a new body for entityId
createBody(w, e) ==
    [w EXCEPT !.bodies = @ \cup {w.nextBodyId},
              !.entityBodies = MapPut(@, e, w.nextBodyId),
              !.nextBodyId = @ + 1]

\* JoltPhysicsWorld.removeBody(entityId): the world afterwards, and whether
\* the call threw (it would use the body interface of a destroyed engine)
removeBody(w, e) ==
    IF e \notin DOMAIN w.entityBodies
    THEN [world |-> w, threw |-> FALSE]
    ELSE IF w.entityBodies[e] \notin w.bodies
    THEN [world |-> w, threw |-> FALSE]
    ELSE IF ~w.joltInterface
    THEN [world |-> w, threw |-> TRUE]
    ELSE [world |-> [w EXCEPT !.bodies = @ \ {w.entityBodies[e]},
                              !.entityBodies = MapDelete(@, e)],
          threw |-> FALSE]

\* JoltPhysicsWorld.destroy()
destroy(w) ==
    [w EXCEPT !.joltInterface = FALSE, !.bodies = {}, !.entityBodies = EmptyMap]

\* destroyPhysicsWorld(roomId)
destroyPhysicsWorld(worlds, r) ==
    IF r \in DOMAIN worlds THEN MapDelete(worlds, r) ELSE worlds

Msg(to, type, about) == [to |-> to, type |-> type, about |-> about]

\* broadcastToRoom(sender, message) with the maps as they are at the call
broadcastToRoom(sender, type, about, cr, rms) ==
    IF cr[sender] = NoRoom \/ cr[sender] \notin DOMAIN rms
    THEN {}
    ELSE {Msg(x, type, about) :
            x \in {y \in SeqSet(rms[cr[sender]].clients) :
                     y # sender /\ sockOpen[y]}}

\* send(client, type, data)
send(c, type, about) == IF sockOpen[c] THEN {Msg(c, type, about)} ELSE {}

NoCallYet == [op |-> "none", client |-> NoClient, room |-> NoRoom, threw |-> FALSE]

Ran(op, c, r, threw) == [op |-> op, client |-> c, room |-> r, threw |-> threw]

SrvInit ==
    /\ sockOpen = [c \in Clients |-> TRUE]
    /\ closeEvents = [c \in Clients |-> 0]
    /\ awaiting = {}
    /\ rooms = EmptyMap
    /\ clientRooms = [c \in Clients |-> NoRoom]
    /\ clientInfo = [c \in Clients |-> FALSE]
    /\ physicsWorlds = EmptyMap
    /\ sent = {}
    /\ lastCall = NoCallYet
    /\ crashed = FALSE
    /\ handshakes = 0

\* handleHandshake from "const room = rooms.get(roomId)" to its end, with
\* rooms as rms
Join(c, r, rms) ==
    LET room == addClient(rms[r], c)
        rms1 == [rms EXCEPT ![r] = room]
        cr1  == [clientRooms EXCEPT ![c] = r]
    IN  /\ rooms' = rms1
        /\ clientRooms' = cr1
        /\ sent' = send(c, "handshake", <<"host", room.hostClientId>>)
                   \cup UNION {send(c, "entity_spawn", PlayerEntity(p)) :
                                  p \in room.players}
                   \cup UNION {send(c, "entity_spawn", v) : v \in room.vehicles}
                   \cup broadcastToRoom(c, "player_join", <<"client", c>>, cr1, rms1)

\* a handshake message arrives: handleHandshake up to its await, or to its
\* end when the room exists
Handshake(c, r) ==
    /\ ~crashed
    /\ sockOpen[c]
    /\ handshakes < MaxHandshakes
    /\ handshakes' = handshakes + 1
    /\ r \notin DOMAIN rooms => <<c, r>> \notin awaiting
    /\ clientInfo' = [clientInfo EXCEPT ![c] = TRUE]
    /\ IF r \notin DOMAIN rooms
       THEN /\ rooms' = MapPut(rooms, r, RoomState)
            /\ awaiting' = awaiting \cup {<<c, r>>}
            /\ sent' = {}
            /\ lastCall' = Ran("handshake", c, r, FALSE)
            /\ UNCHANGED clientRooms
       ELSE /\ Join(c, r, rooms)
            /\ lastCall' = Ran("join", c, r, FALSE)
            /\ UNCHANGED awaiting
    /\ UNCHANGED <<sockOpen, closeEvents, physicsWorlds, crashed>>
    /\ UNCHANGED notServer

\* world.initialize() resolves: the rest of initializePhysicsWorld, then the
\* rest of handleHandshake.  When the room has been deleted meanwhile,
\* room.vehicles.set throws after the first vehicle body was created and
\* the handshake's promise rejects with nobody handling it.
InitDone(c, r) ==
    /\ ~crashed
    /\ <<c, r>> \in awaiting
    /\ awaiting' = awaiting \ {<<c, r>>}
    /\ IF r \in DOMAIN rooms
       THEN LET w == createBody(createBody(createBody(NewWorld,
                         VehicleEntity(1)), VehicleEntity(2)), VehicleEntity(3))
                rms == [rooms EXCEPT ![r].vehicles =
                          @ \cup {VehicleEntity(i) : i \in 1..Len(SERVER_VEHICLES)}]
            IN  /\ physicsWorlds' = MapPut(physicsWorlds, r, w)
                /\ Join(c, r, rms)
                /\ lastCall' = Ran("join", c, r, FALSE)
                /\ UNCHANGED crashed
       ELSE /\ physicsWorlds' =
                  MapPut(physicsWorlds, r, createBody(NewWorld, VehicleEntity(1)))
            /\ crashed' \in BOOLEAN
            /\ sent' = {}
            /\ lastCall' = Ran("join", c, r, TRUE)
            /\ UNCHANGED <<rooms, clientRooms>>
    /\ UNCHANGED <<sockOpen, closeEvents, clientInfo, handshakes>>
    /\ UNCHANGED notServer

\* world.initialize() rejects: handleHandshake rejects at its await and
\* nobody handles the rejection; the runtime either ends the process or
\* carries on
InitFail(c, r) ==
    /\ ~crashed
    /\ <<c, r>> \in awaiting
    /\ awaiting' = awaiting \ {<<c, r>>}
    /\ crashed' \in BOOLEAN
    /\ sent' = {}
    /\ lastCall' = Ran("initFail", c, r, TRUE)
    /\ UNCHANGED <<sockOpen, closeEvents, rooms, clientRooms, clientInfo,
                   physicsWorlds, handshakes>>
    /\ UNCHANGED notServer

\* clientRooms.delete(client); clientInfo.delete(client)
forget_nothing(c) ==
    UNCHANGED <<clientRooms, clientInfo>>

forget(c) ==
    /\ clientRooms' = [clientRooms EXCEPT ![c] = NoRoom]
    /\ clientInfo' = [clientInfo EXCEPT ![c] = FALSE]

\* handleDisconnect(client)
handleDisconnect(c) ==
    LET info   == clientInfo[c]
        roomId == clientRooms[c]
    IN  /\ IF roomId # NoRoom /\ roomId \in DOMAIN rooms
           THEN LET room == rooms[roomId]
                    removed == IF info /\ roomId \in DOMAIN physicsWorlds
                               THEN removeBody(physicsWorlds[roomId], PlayerEntity(c))
                               ELSE [world |-> NewWorld, threw |-> FALSE]
                    worlds == IF info /\ roomId \in DOMAIN physicsWorlds
                              THEN [physicsWorlds EXCEPT ![roomId] = removed.world]
                              ELSE physicsWorlds
                    room1 == IF info
                             THEN removeClient([room EXCEPT !.players = @ \ {c}],
                                               c, clientInfo)
                             ELSE room
                    rms1 == [rooms EXCEPT ![roomId] = room1]
                IN  /\ sent' = IF info
                               THEN broadcastToRoom(c, "entity_destroy",
                                        PlayerEntity(c), clientRooms, rms1)
                                    \cup broadcastToRoom(c, "player_leave",
                                        <<"client", c>>, clientRooms, rms1)
                               ELSE {}
                    /\ IF Len(room1.clients) = 0
                       THEN /\ rooms' = MapDelete(rooms, roomId)
                            /\ physicsWorlds' = destroyPhysicsWorld(worlds, roomId)
                       ELSE /\ rooms' = rms1
                            /\ physicsWorlds' = worlds
                    /\ lastCall' = Ran("disconnect", c, roomId, removed.threw)
           ELSE /\ sent' = {}
                /\ lastCall' = Ran("disconnect", c, NoRoom, FALSE)
                /\ UNCHANGED <<rooms, physicsWorlds>>
        /\ forget(c)

\* a 'disconnect' message arrives
DisconnectMsg(c) ==
    /\ ~crashed
    /\ sockOpen[c]
    /\ handleDisconnect(c)
    /\ UNCHANGED <<sockOpen, closeEvents, awaiting, crashed, handshakes>>
    /\ UNCHANGED notServer

\* the connection ends: 'close' will fire, after 'error' when it broke
SocketClose(c) ==
    /\ ~crashed
    /\ sockOpen[c]
    /\ sockOpen' = [sockOpen EXCEPT ![c] = FALSE]
    /\ \E n \in 1..2 : closeEvents' = [closeEvents EXCEPT ![c] = n]
    /\ UNCHANGED <<awaiting, rooms, clientRooms, clientInfo, physicsWorlds, sent,
                   lastCall, crashed, handshakes>>
    /\ UNCHANGED notServer

\* ws.on('error') / ws.on('close')
OnSocketEvent(c) ==
    /\ ~crashed
    /\ closeEvents[c] > 0
    /\ closeEvents' = [closeEvents EXCEPT ![c] = @ - 1]
    /\ handleDisconnect(c)
    /\ UNCHANGED <<sockOpen, awaiting, crashed, handshakes>>
    /\ UNCHANGED notServer

\* handleSpawnPlayer(client, data, clientId)
SpawnPlayer(c) ==
    /\ ~crashed
    /\ sockOpen[c]
    /\ LET roomId == clientRooms[c] IN
       IF /\ roomId # NoRoom
          /\ roomId \in DOMAIN rooms
          /\ roomId \in DOMAIN physicsWorlds
          /\ clientInfo[c]
       THEN /\ physicsWorlds[roomId].nextBodyId <= MaxBodies
            /\ physicsWorlds' = [physicsWorlds EXCEPT ![roomId] =
                                    createBody(@, PlayerEntity(c))]
            /\ rooms' = [rooms EXCEPT ![roomId].players = @ \cup {c}]
            /\ sent' = {Msg(x, "entity_spawn", PlayerEntity(c)) :
                          x \in {y \in SeqSet(rooms[roomId].clients) : sockOpen[y]}}
            /\ lastCall' = Ran("spawn", c, roomId, FALSE)
       ELSE /\ sent' = {}
            /\ lastCall' = Ran("spawn", c, NoRoom, FALSE)
            /\ UNCHANGED <<rooms, physicsWorlds>>
    /\ UNCHANGED <<sockOpen, closeEvents, awaiting, clientRooms, clientInfo, crashed,
                   handshakes>>
    /\ UNCHANGED notServer

\* handleCommand: the vehicle types '/spawnvehicle' accepts
validTypes_any == {"tank", "helicopter", "jeep", "boat"}

validTypes == {"tank", "helicopter", "jeep"}

\* the second word of a '/spawnvehicle <type>' chat message, lower-cased
CommandTypes == {"jeep", "boat"}

\* the id handleSpawnVehicle gives a vehicle spawned by a command
CommandVehicle(type) == <<"spawned", type>>

System(text) == <<"System", text>>

\* handleMessage for a chat_message '/spawnvehicle <type>': handleCommand,
\* and handleSpawnVehicle for a valid type
ChatCommand(c, type) ==
    /\ ~crashed
    /\ sockOpen[c]
    /\ LET roomId == clientRooms[c] IN
       IF type \notin validTypes
       THEN /\ sent' = send(c, "chat_message", System("Invalid vehicle type."))
            /\ lastCall' = Ran("invalidType", c, roomId, FALSE)
            /\ UNCHANGED <<rooms, physicsWorlds>>
       ELSE IF roomId = NoRoom \/ roomId \notin DOMAIN rooms \/ ~clientInfo[c]
       THEN /\ sent' = send(c, "chat_message", System("not in a room"))
            /\ lastCall' = Ran("command", c, NoRoom, FALSE)
            /\ UNCHANGED <<rooms, physicsWorlds>>
       ELSE IF c \notin rooms[roomId].players
       THEN /\ sent' = send(c, "chat_message", System("player not spawned"))
            /\ lastCall' = Ran("command", c, roomId, FALSE)
            /\ UNCHANGED <<rooms, physicsWorlds>>
       ELSE IF roomId \notin DOMAIN physicsWorlds
       THEN /\ sent' = send(c, "chat_message", System("Spawning"))
            /\ lastCall' = Ran("command", c, roomId, FALSE)
            /\ UNCHANGED <<rooms, physicsWorlds>>
       ELSE /\ CommandVehicle(type) \notin rooms[roomId].vehicles
            /\ Cardinality({v \in rooms[roomId].vehicles : v[1] = "spawned"})
                   < MaxCommandVehicles
            /\ physicsWorlds' = [physicsWorlds EXCEPT ![roomId] =
                                    createBody(@, CommandVehicle(type))]
            /\ rooms' = [rooms EXCEPT ![roomId].vehicles =
                                    @ \cup {CommandVehicle(type)}]
            /\ sent' = {Msg(x, "entity_spawn", CommandVehicle(type)) :
                          x \in {y \in SeqSet(rooms[roomId].clients) : sockOpen[y]}}
                       \cup send(c, "chat_message", System("Spawning"))
            /\ lastCall' = Ran("command", c, roomId, FALSE)
    /\ UNCHANGED <<sockOpen, closeEvents, awaiting, clientRooms, clientInfo, crashed,
                   handshakes>>
    /\ UNCHANGED notServer

\* handleMessage for a message with data.broadcast set that is not a
\* command: broadcastToRoom(client, message)
RelayBroadcast(c) ==
    /\ ~crashed
    /\ sockOpen[c]
    /\ sent' = broadcastToRoom(c, "relay", <<"client", c>>, clientRooms, rooms)
    /\ lastCall' = Ran("relay", c, clientRooms[c], FALSE)
    /\ UNCHANGED <<sockOpen, closeEvents, awaiting, rooms, clientRooms, clientInfo,
                   physicsWorlds, crashed, handshakes>>
    /\ UNCHANGED notServer

\* broadcastPhysicsState(), called by physicsLoop
BroadcastPhysicsState ==
    /\ ~crashed
    /\ sent' = UNION {{Msg(x, "physics_state", <<"room", r>>) :
                         x \in {y \in SeqSet(rooms[r].clients) : sockOpen[y]}} :
                      r \in {q \in DOMAIN physicsWorlds \cap DOMAIN rooms :
                               DOMAIN physicsWorlds[q].entityBodies # {}}}
    /\ lastCall' = Ran("physics", NoClient, NoRoom, FALSE)
    /\ UNCHANGED <<sockOpen, closeEvents, awaiting, rooms, clientRooms, clientInfo,
                   physicsWorlds, crashed, handshakes>>
    /\ UNCHANGED notServer

\* the relay path of the server, for clients that leave with a 'disconnect'
\* message: joining, spawning, leaving, chat commands, relayed messages and
\* the physics broadcast
NextRelay ==
    \/ \E c \in Clients, r \in RoomIds : Handshake(c, r)
    \/ \E c \in Clients, r \in RoomIds : InitDone(c, r)
    \/ \E c \in Clients : DisconnectMsg(c)
    \/ \E c \in Clients : SpawnPlayer(c)
    \/ \E c \in Clients, type \in CommandTypes : ChatCommand(c, type)
    \/ \E c \in Clients : RelayBroadcast(c)
    \/ BroadcastPhysicsState

NextServer ==
    \/ \E c \in Clients, r \in RoomIds : Handshake(c, r)
    \/ \E c \in Clients, r \in RoomIds : InitDone(c, r)
    \/ \E c \in Clients, r \in RoomIds : InitFail(c, r)
    \/ \E c \in Clients : DisconnectMsg(c)
    \/ \E c \in Clients : SocketClose(c)
    \/ \E c \in Clients : OnSocketEvent(c)
    \/ \E c \in Clients : SpawnPlayer(c)

(***************************************************************************)
(* One JoltPhysicsWorld: initialize, step, destroy.  Time is counted in    *)
(* units of 1/240 s, so that fixedTimeStep (1/60 s) is 4 units.            *)
(***************************************************************************)
fixedTimeStep == 4
maxSubSteps == 4
MaxDeltaTime == 24
MaxStepCount == 4

NoStep == [deltaTime |-> 0, steps |-> 0, ran |-> FALSE]

WorldInit ==
    /\ joltInterface = FALSE
    /\ accumulator = 0
    /\ stepCount = 0
    /\ lastStep = NoStep

\* JoltPhysicsWorld.initialize()
WorldInitialize ==
    /\ ~joltInterface
    /\ joltInterface' = TRUE
    /\ UNCHANGED <<accumulator, stepCount, lastStep>>
    /\ UNCHANGED notWorld

\* the while loop of step(): the number of fixed steps executed from acc
RECURSIVE fixedSteps_uncapped(_, _)
RECURSIVE fixedSteps(_, _)
fixedSteps_uncapped(acc, steps) ==
    IF acc >= fixedTimeStep
    THEN fixedSteps_uncapped(acc - fixedTimeStep, steps + 1)
    ELSE steps

fixedSteps(acc, steps) ==
    IF acc >= fixedTimeStep /\ steps < maxSubSteps
    THEN fixedSteps(acc - fixedTimeStep, steps + 1)
    ELSE steps

\* JoltPhysicsWorld.step(deltaTime)
Step(deltaTime) ==
    /\ stepCount < MaxStepCount
    /\ IF ~joltInterface
       THEN /\ lastStep' = [deltaTime |-> deltaTime, steps |-> 0, ran |-> FALSE]
            /\ UNCHANGED <<accumulator, stepCount>>
       ELSE LET acc   == accumulator + deltaTime
                steps == fixedSteps(acc, 0)
                left  == acc - steps * fixedTimeStep
            IN  /\ accumulator' = IF left > fixedTimeStep * maxSubSteps
                                  THEN 0 ELSE left
                /\ stepCount' = stepCount + 1
                /\ lastStep' = [deltaTime |-> deltaTime, steps |-> steps,
                                ran |-> TRUE]
    /\ UNCHANGED joltInterface
    /\ UNCHANGED notWorld

\* JoltPhysicsWorld.destroy()
WorldDestroy ==
    /\ joltInterface' = FALSE
    /\ UNCHANGED <<accumulator, stepCount, lastStep>>
    /\ UNCHANGED notWorld

NextWorld ==
    \/ WorldInitialize
    \/ \E deltaTime \in 0..MaxDeltaTime : Step(deltaTime)
    \/ WorldDestroy

(***************************************************************************)
(* One vehicle's weapons: VehicleManager.update / fireWeapon / dropBomb.   *)
(* Time is counted in units of 0.02 s.  A cooldown field the vehicle was   *)
(* spawned without is undefined and becomes NaN in update; both compare    *)
(* false with everything and are written NaN here.                         *)
(***************************************************************************)
VehicleTypes == {"tank", "helicopter", "jeep"}
SeatRoles == {"driver", "top-gunner", "pilot", "turret", "gunner", "passenger"}
Weapons == {"cannon", "mg", "turret", "gun", "bomb"}
MaxFrameDelta == 5

NaN == -1

CannonCooldown == 110
MgCooldown     == 4
TurretCooldown == 6
GunCooldown    == 5
BombCooldown   == 125

\* the value a weapon's cooldown is set to when it fires
CooldownOf(w) ==
    CASE w = "cannon" -> CannonCooldown
      [] w = "mg"     -> MgCooldown
      [] w = "turret" -> TurretCooldown
      [] w = "gun"    -> GunCooldown
      [] w = "bomb"   -> BombCooldown

\* the weapons fireWeapon can fire on a vehicle of this type
WeaponsOf(type) ==
    CASE type = "tank"       -> {"cannon", "mg"}
      [] type = "helicopter" -> {"turret", "bomb"}
      [] type = "jeep"       -> {"gun"}

NoFire == [op |-> "none", role |-> "", emitted |-> {}]

\* spawnTank / spawnHelicopter / spawnJeep
WeaponInitFor(type) ==
    /\ vehicleType = type
    /\ weaponCooldown = 0
    /\ mgCooldown = IF type = "tank" THEN 0 ELSE NaN
    /\ bombCooldown = IF type = "helicopter" THEN 0 ELSE NaN
    /\ elapsed = [w \in Weapons |-> CooldownOf(w)]
    /\ lastFire = NoFire

WeaponInit == \E type \in VehicleTypes : WeaponInitFor(type)

WeaponIdle == WeaponInitFor("tank")

\* Math.max(0, cooldown - delta)
lower(cd, delta) == IF cd = NaN THEN NaN ELSE Max2(0, cd - delta)

\* cooldown <= 0
ready_always(cd) == cd # NaN

ready(cd) == cd # NaN /\ cd <= 0

\* VehicleManager.update(delta), for this vehicle's cooldowns
VehicleUpdate(delta) ==
    /\ weaponCooldown' = lower(weaponCooldown, delta)
    /\ mgCooldown' = lower(mgCooldown, delta)
    /\ bombCooldown' = lower(bombCooldown, delta)
    /\ elapsed' = [w \in Weapons |-> Min2(elapsed[w] + delta, CooldownOf(w))]
    /\ lastFire' = [op |-> "update", role |-> "", emitted |-> {}]
    /\ UNCHANGED vehicleType
    /\ UNCHANGED notWeapon

\* the weapons one fireWeapon(vehicle, seatRole) call fires; the pilot's
\* call is dropBomb(vehicle), which returns at once while bombCooldown > 0
Fired(seatRole) ==
    CASE vehicleType = "tank" ->
            (IF seatRole = "driver" /\ ready(weaponCooldown)
             THEN {"cannon"} ELSE {})
            \cup (IF seatRole \in {"top-gunner", "driver"} /\ ready(mgCooldown)
                  THEN {"mg"} ELSE {})
      [] vehicleType = "helicopter" ->
            (IF seatRole = "turret" /\ ready(weaponCooldown)
             THEN {"turret"} ELSE {})
            \cup (IF seatRole = "pilot" /\ ~(bombCooldown # NaN /\ bombCooldown > 0)
                  THEN {"bomb"} ELSE {})
      [] vehicleType = "jeep" ->
            IF seatRole = "gunner" /\ ready(weaponCooldown)
            THEN {"gun"} ELSE {}

\* VehicleManager.fireWeapon(vehicle, seatRole, direction)
FireWeapon(seatRole) ==
    LET fired == Fired(seatRole) IN
    /\ weaponCooldown' =
          IF "cannon" \in fired THEN CannonCooldown
          ELSE IF "turret" \in fired THEN TurretCooldown
          ELSE IF "gun" \in fired THEN GunCooldown
          ELSE weaponCooldown
    /\ mgCooldown' = IF "mg" \in fired THEN MgCooldown ELSE mgCooldown
    /\ bombCooldown' = IF "bomb" \in fired THEN BombCooldown ELSE bombCooldown
    /\ elapsed' = [w \in Weapons |-> IF w \in fired THEN 0 ELSE elapsed[w]]
    /\ lastFire' = [op |-> "fire", role |-> seatRole, emitted |-> fired]
    /\ UNCHANGED vehicleType
    /\ UNCHANGED notWeapon

NextWeapons ==
    \/ \E delta \in 0..MaxFrameDelta : VehicleUpdate(delta)
    \/ \E seatRole \in SeatRoles : FireWeapon(seatRole)

(***************************************************************************)
(* PhysicsSystem (src/js/physics.js:3-236): one registered body over flat  *)
(* terrain, with at most one wide, thin, flat box collider above it.       *)
(*                                                                         *)
(* Lengths are centimetres, velocities centimetres per second and delta is *)
(* counted in ticks of 1/50 s; products are truncated toward zero.  The    *)
(* velocity has a horizontal (x) and a vertical (y) component; z behaves   *)
(* as x does.  The terrain is flat, so its normal and the collider normal  *)
(* are both (0, 1, 0) and projectOntoPlane leaves a horizontal vector as   *)
(* it is.  The collider is wider than anything the body travels, so only   *)
(* its y extent decides an intersection.  No dynamic volume is registered. *)
(***************************************************************************)
MaxDelta        == 3       \* largest delta of one step, in ticks
MaxIntegrations == 2       \* steps per behaviour
MaxWrites       == 1       \* velocity writes by a controller per behaviour

TicksPerSecond   == 50
gravity          == 3850   \* CONFIG.gravity = 38.5
terminalVelocity == 15000  \* CONFIG.terminalVelocity = 150
stepHeight       == 75     \* CONFIG.stepHeight = 0.75
jumpSpeed        == 1550   \* CONFIG.jumpSpeed = 15.5
radius           == 70     \* the player's body, radius 0.7
height           == 170    \* the player's body, height 1.7
bounciness       == 5      \* default bounciness 0.05, in hundredths
friction         == 10     \* CONFIG.groundFriction = 10.0
damping          == 35     \* CONFIG.airDrag = 0.35, in hundredths
skin             == 5      \* desiredHeight = groundHeight + 0.05
terrainHeight    == 0      \* terrainSampler(x, z) of the flat terrain

Platform == [min |-> 250, max |-> 300]   \* y extent of the box collider
SkyHeight == 3000

TruncDiv(a, b) == IF a >= 0 THEN a \div b ELSE -((-a) \div b)

RECURSIVE CeilSqrtIn(_, _, _)
CeilSqrtIn(n, lo, hi) ==
    IF lo >= hi THEN lo
    ELSE LET mid == (lo + hi) \div 2
         IN  IF mid * mid >= n THEN CeilSqrtIn(n, lo, mid)
             ELSE CeilSqrtIn(n, mid + 1, hi)

\* Vector3.length(), rounded up
length(v) == CeilSqrtIn(v[1] * v[1] + v[2] * v[2], 0, 46340)

\* Vector3.setLength(l): the vector scaled by l / length
setLength(v, l) ==
    LET len == length(v)
    IN  IF len = 0 THEN v
        ELSE <<TruncDiv(v[1] * l, len), TruncDiv(v[2] * l, len)>>

\* the clamp of integrate
clampVelocity_none(v) == v

clampVelocity(v) ==
    IF v[1] * v[1] + v[2] * v[2] > terminalVelocity * terminalVelocity
    THEN setLength(v, terminalVelocity)
    ELSE v

sign(n) == IF n > 0 THEN 1 ELSE IF n < 0 THEN -1 ELSE 0

\* resolveCollisions for position.y = y and velocity v against the boxes
\* of cs (at most one): the corrected y and velocity, and onGround
resolveCollisions(y, v, cs) ==
    IF cs = {} THEN [y |-> y, v |-> v, onGround |-> FALSE]
    ELSE
    LET box == CHOOSE b \in cs : TRUE
        intersects == y + height >= box.min /\ y <= box.max
        overlapX == 2 * radius
        overlapY == Min2(y + height, box.max) - Max2(y, box.min)
        minPenetration == Min2(overlapX, overlapY)
        canStep == (box.max - y) <= stepHeight /\ (y + height) > box.min
        centres == sign((2 * y + height) - (box.min + box.max))
        dir == IF centres = 0 THEN 1 ELSE centres
    IN  IF ~intersects \/ overlapY <= 0
        THEN [y |-> y, v |-> v, onGround |-> FALSE]
        ELSE IF minPenetration = overlapX /\ canStep
        THEN [y |-> box.max,
              v |-> <<v[1], IF v[2] < 0 THEN 0 ELSE v[2]>>,
              onGround |-> TRUE]
        ELSE IF minPenetration = overlapX
        THEN [y |-> y, v |-> <<0, v[2]>>, onGround |-> FALSE]
        ELSE [y |-> y + overlapY * dir,
              v |-> <<v[1], IF v[2] * dir < 0 THEN 0 ELSE v[2]>>,
              onGround |-> dir > 0]

NoHit == -1000000

\* groundCast: box.max.y of the closest box under the middle of the body,
\* or NoHit for null
groundCast(y, cs) ==
    LET origin == y + height \div 2
        hits == {b \in cs : origin >= b.min /\ origin - b.max >= 0}
    IN  IF hits = {} THEN NoHit ELSE (CHOOSE b \in hits : TRUE).max

\* the height the body would rest at, at position.y = y
desiredHeightAt(y, cs) ==
    LET colliderGround == groundCast(y, cs)
        groundHeight == IF colliderGround # NoHit
                        THEN Max2(terrainHeight, colliderGround)
                        ELSE terrainHeight
    IN  groundHeight + skin

\* what integrate assigns to grounded before the ground branches
groundedAtStart_stale(b, onGround) == b.grounded \/ onGround

groundedAtStart(b, onGround) == onGround

\* integrate(body, delta, terrainSampler)
integrate(b, delta) ==
    LET fallen == <<b.velocity[1],
                    b.velocity[2] - TruncDiv(gravity * delta, TicksPerSecond)>>
        damped == <<TruncDiv(fallen[1] * (100 * TicksPerSecond - damping * delta),
                             100 * TicksPerSecond),
                    fallen[2]>>
        clamped == clampVelocity(damped)
        moved == b.position + TruncDiv(clamped[2] * delta, TicksPerSecond)
        collisionInfo == resolveCollisions(moved, clamped, colliders)
        y == collisionInfo.y
        v == collisionInfo.v
        desiredHeight == desiredHeightAt(y, colliders)
        penetration == desiredHeight - y
        movingDownward == v[2] < 0
        vertical == v[2]
        rub == Max2(0, TicksPerSecond - friction * delta)
        landed == <<TruncDiv(v[1] * rub, TicksPerSecond),
                    IF vertical < 0 THEN 0 ELSE Min2(vertical, 150)>>
        bounced == IF vertical < -100 /\ bounciness > 0
                   THEN <<landed[1],
                          landed[2] + TruncDiv((-vertical) * bounciness, 400)>>
                   ELSE landed
        start == groundedAtStart(b, collisionInfo.onGround)
    IN  IF penetration > 0
        THEN [b EXCEPT !.position = y + penetration, !.velocity = bounced,
                       !.grounded = TRUE]
        ELSE IF penetration > -stepHeight /\ movingDownward
        THEN [b EXCEPT !.position = y + Max2(penetration, 0),
                       !.velocity = <<v[1], Max2(v[2], -150)>>,
                       !.grounded = TRUE]
        ELSE IF Abs(penetration) < 25 /\ movingDownward
        THEN [b EXCEPT !.position = y + TruncDiv((desiredHeight - y) * 35, 100),
                       !.velocity = <<v[1], Max2(v[2], -250)>>,
                       !.grounded = TRUE]
        ELSE [b EXCEPT !.position = y, !.velocity = v, !.grounded = start]

NoIntegrate == [delta |-> -1, before |-> <<>>]

\* registerBody: the defaults merged with what the caller passes
registerBody(y, noGrav) ==
    [position |-> y, velocity |-> <<0, 0>>, grounded |-> FALSE,
     noGravity |-> noGrav]

StartHeights == {terrainHeight + skin, terrainHeight + skin + 40,
                 Platform.max + skin, SkyHeight}

\* velocities a controller or a network update writes into body.velocity
WrittenVelocities ==
    {<<0, 0>>, <<0, jumpSpeed>>, <<2000, -300>>, <<20000, 0>>,
     <<0, -20000>>, <<12000, -12000>>, <<-20000, 20000>>}

PhysInit ==
    /\ \E y \in StartHeights, g \in BOOLEAN : body = registerBody(y, g)
    /\ colliders \in {{}, {Platform}}
    /\ lastIntegrate = NoIntegrate
    /\ integrations = 0
    /\ velocityWrites = 0

PhysIdle ==
    /\ body = registerBody(terrainHeight + skin, FALSE)
    /\ colliders = {}
    /\ lastIntegrate = NoIntegrate
    /\ integrations = 0
    /\ velocityWrites = 0

\* PhysicsSystem.step(delta, terrainSampler): integrate for every body
PhysicsStep(delta) ==
    /\ integrations < MaxIntegrations
    /\ body' = integrate(body, delta)
    /\ lastIntegrate' = [delta |-> delta, before |-> body]
    /\ integrations' = integrations + 1
    /\ UNCHANGED <<colliders, velocityWrites>>
    /\ UNCHANGED notPhysics

\* body.velocity.set(...) by the player controller, the vehicle code or a
\* network update between two steps
WriteVelocity(v) ==
    /\ velocityWrites < MaxWrites
    /\ body' = [body EXCEPT !.velocity = v]
    /\ velocityWrites' = velocityWrites + 1
    /\ UNCHANGED <<colliders, lastIntegrate, integrations>>
    /\ UNCHANGED notPhysics

\* enterVehicle / exitSeat: physicsBody.noGravity = true / false
SetNoGravity(flag) ==
    /\ body.noGravity # flag
    /\ body' = [body EXCEPT !.noGravity = flag]
    /\ UNCHANGED <<colliders, lastIntegrate, integrations, velocityWrites>>
    /\ UNCHANGED notPhysics

NextPhysics ==
    \/ \E delta \in 0..MaxDelta : PhysicsStep(delta)
    \/ \E v \in WrittenVelocities : WriteVelocity(v)
    \/ \E flag \in BOOLEAN : SetNoGravity(flag)

(***************************************************************************)
(* Terrain height cache (src/unnamed/part_002:29-50, 257-335).             *)
(*                                                                         *)
(* Coordinates are counted in steps of 0.05, so that several coordinates   *)
(* share one cache key; HEIGHT_CACHE_LIMIT is scaled down with them.       *)
(***************************************************************************)
MaxCoordX == 3
MaxCoordZ == 1
HEIGHT_CACHE_LIMIT == 2

\* Math.round(w * 10) / 10 for w = c * 0.05, counted in tenths
roundTenth(c) == (c + 1) \div 2

\* cacheKey(wx, wz)
cacheKey(wx, wz) == <<roundTenth(wx), roundTenth(wz)>>

\* the height computed from the noise layers (part_002:263-331): a pure
\* function of the coordinates that takes different values inside one
\* cache cell and is never below the ocean floor
naturalHeight(wx, wz) == Max2(7 * wx - 3 * wz - 2, -30)

\* setCachedHeight(key, value)
setCachedHeight_noClear(cache, key, value) == MapPut(cache, key, value)

setCachedHeight(cache, key, value) ==
    LET kept == IF Cardinality(DOMAIN cache) > HEIGHT_CACHE_LIMIT
                THEN EmptyMap ELSE cache
    IN  MapPut(kept, key, value)

NoHeight == [wx |-> -1, wz |-> -1, height |-> 0, hit |-> FALSE]

TerrainInit ==
    /\ HEIGHT_CACHE = EmptyMap
    /\ firstHeight = NoHeight
    /\ lastHeight = NoHeight

TerrainIdle ==
    /\ HEIGHT_CACHE = EmptyMap
    /\ firstHeight = NoHeight
    /\ lastHeight = NoHeight

\* calculateNaturalTerrainHeight(wx, wz)
CalculateNaturalTerrainHeight(wx, wz) ==
    LET key == cacheKey(wx, wz)
        hit == key \in DOMAIN HEIGHT_CACHE
        result == IF hit THEN HEIGHT_CACHE[key] ELSE naturalHeight(wx, wz)
        call == [wx |-> wx, wz |-> wz, height |-> result, hit |-> hit]
    IN  /\ HEIGHT_CACHE' = IF hit THEN HEIGHT_CACHE
                           ELSE setCachedHeight(HEIGHT_CACHE, key, result)
        /\ lastHeight' = call
        /\ firstHeight' = IF firstHeight = NoHeight THEN call ELSE firstHeight
        /\ UNCHANGED notTerrain

\* clearTerrainCache()
ClearTerrainCache ==
    /\ HEIGHT_CACHE # EmptyMap
    /\ HEIGHT_CACHE' = EmptyMap
    /\ UNCHANGED <<firstHeight, lastHeight>>
    /\ UNCHANGED notTerrain

NextTerrain ==
    \/ \E wx \in 0..MaxCoordX, wz \in 0..MaxCoordZ :
           CalculateNaturalTerrainHeight(wx, wz)
    \/ ClearTerrainCache

(***************************************************************************)
(* One networked vehicle shared by several game clients                    *)
(* (src/js/vehicle-manager.js:35-128, 645-707; src/unnamed/part_000:       *)
(* 370-426).  Every client holds its own copy of the vehicle, created by   *)
(* handleNetworkVehicleSpawn, with its own seats array; the host's copy is *)
(* the authoritative one (isRemote = false), the others are remote.        *)
(* seat.occupant of a copy is the PlayerController of that client or null. *)
(***************************************************************************)
GameClients == {"host", "guest"}
HostClient  == "host"
TankSeats   == {0, 1}          \* driver, top-gunner
NoTankSeat  == -1
MaxVehiclePos == 2             \* the host drives over 0..MaxVehiclePos, in tens
MaxVehicleSpeed == 1

NoUpdate == [to |-> "none", position |-> 0, velocity |-> 0, occupants |-> {}]

NetSeatInit ==
    /\ netSeatOccupant = [c \in GameClients |-> [s \in TankSeats |-> Nobody]]
    /\ netCurrentSeat = [c \in GameClients |-> NoTankSeat]
    /\ netVehicle = [c \in GameClients |-> [position |-> 0, velocity |-> 0]]
    /\ lastVehicleUpdate = NoUpdate

NetSeatIdle ==
    /\ netSeatOccupant = [c \in GameClients |-> [s \in TankSeats |-> Nobody]]
    /\ netCurrentSeat = [c \in GameClients |-> NoTankSeat]
    /\ netVehicle = [c \in GameClients |-> [position |-> 0, velocity |-> 0]]
    /\ lastVehicleUpdate = NoUpdate

\* listSeats / findAvailableSeat on client c: the seats whose occupant is
\* null in the copy of c
freeSeats(c) == {s \in TankSeats : netSeatOccupant[c][s] = Nobody}

\* the occupants array of syncVehicleState: seat index and occupant id
occupantsOf(c) ==
    {<<s, netSeatOccupant[c][s]>> : s \in TankSeats \ freeSeats(c)}

\* client c: toggleVehicleSeat on foot, or the hover panel on a free seat,
\* then enterVehicle(vehicle, seat)
NetEnterVehicle(c, seat) ==
    /\ netCurrentSeat[c] = NoTankSeat
    /\ seat \in freeSeats(c)
    /\ netSeatOccupant' = [netSeatOccupant EXCEPT ![c][seat] = c]
    /\ netCurrentSeat' = [netCurrentSeat EXCEPT ![c] = seat]
    /\ UNCHANGED <<netVehicle, lastVehicleUpdate>>
    /\ UNCHANGED notNetSeats

\* client c: the seat-switch panel on a free seat: vacateSeat, enterVehicle
NetSwitchSeat(c, seat) ==
    /\ netCurrentSeat[c] # NoTankSeat
    /\ seat # netCurrentSeat[c]
    /\ seat \in freeSeats(c)
    /\ netSeatOccupant' = [netSeatOccupant EXCEPT ![c][netCurrentSeat[c]] = Nobody,
                                                  ![c][seat] = c]
    /\ netCurrentSeat' = [netCurrentSeat EXCEPT ![c] = seat]
    /\ UNCHANGED <<netVehicle, lastVehicleUpdate>>
    /\ UNCHANGED notNetSeats

\* client c: toggleVehicleSeat when seated, or 'exit' of the panel: exitSeat
NetExitSeat(c) ==
    /\ netCurrentSeat[c] # NoTankSeat
    /\ netSeatOccupant' = [netSeatOccupant EXCEPT ![c][netCurrentSeat[c]] = Nobody]
    /\ netCurrentSeat' = [netCurrentSeat EXCEPT ![c] = NoTankSeat]
    /\ UNCHANGED <<netVehicle, lastVehicleUpdate>>
    /\ UNCHANGED notNetSeats

\* the host's copy moves (VehicleManager.update on the host)
NetDrive(position, velocity) ==
    /\ netVehicle[HostClient] # [position |-> position, velocity |-> velocity]
    /\ netVehicle' = [netVehicle EXCEPT
                         ![HostClient] = [position |-> position,
                                          velocity |-> velocity]]
    /\ UNCHANGED <<netSeatOccupant, netCurrentSeat, lastVehicleUpdate>>
    /\ UNCHANGED notNetSeats

\* syncVehicleState on the host and handleNetworkVehicleUpdate on client c:
\* position lerps by 0.3 towards data.position, velocity is set; the
\* occupants of the message are not read
NetVehicleUpdate(c) ==
    /\ c # HostClient
    /\ LET data == [to |-> c,
                    position |-> netVehicle[HostClient].position,
                    velocity |-> netVehicle[HostClient].velocity,
                    occupants |-> occupantsOf(HostClient)]
           old == netVehicle[c].position
       IN  /\ lastVehicleUpdate' = data
           /\ netVehicle' = [netVehicle EXCEPT
                  ![c] = [position |-> old + TruncDiv((data.position - old) * 3, 10),
                          velocity |-> data.velocity]]
    /\ UNCHANGED <<netSeatOccupant, netCurrentSeat>>
    /\ UNCHANGED notNetSeats

NextNetSeats ==
    \/ \E c \in GameClients, seat \in TankSeats : NetEnterVehicle(c, seat)
    \/ \E c \in GameClients, seat \in TankSeats : NetSwitchSeat(c, seat)
    \/ \E c \in GameClients : NetExitSeat(c)
    \/ \E p \in 0..MaxVehiclePos, v \in 0..MaxVehicleSpeed : NetDrive(10 * p, v)
    \/ \E c \in GameClients : NetVehicleUpdate(c)

(***************************************************************************)
(* Input sending: PhysicsNetworkClient.sendPlayerInput / sendVehicleInput  *)
(* / clearVehicleInput / update, with a PlayerController that has the      *)
(* client attached (setPhysicsNetworkClient) and enters and leaves seats.  *)
(* submitted and txLog record the calls made and the messages sent.        *)
(***************************************************************************)
Inputs == {1, 2}                \* input samples passed to send*Input

InputTypes == {"player_input", "vehicle_input"}

\* no transmission yet
NoTime == -1

\* vehicle.networkId: set when the vehicle is registered with the network
\* (vehicle-manager.js:48, :100), undefined otherwise
networkId(v) == IF v = "tank" THEN 1 ELSE 0

\* the vehicle ids sendVehicleInput is called with
NetworkIds == {1}

\* the pendingVehicleInput record {vehicleId, throttle, ...} as one number
VehicleInput(v, i) == 10 * v + i

InputInit ==
    /\ submitted = [t \in InputTypes |-> [called |-> 0, accepted |-> 0]]
    /\ txLog = [t \in InputTypes |-> [at |-> NoTime, gap |-> NoTime]]

\* the guard shared by sendPlayerInput, sendVehicleInput and update
sending == enabled /\ serverPhysicsEnabled

\* sendPlayerInput(input)
SendPlayerInput(i) ==
    /\ pendingPlayerInput' = IF sending THEN i ELSE pendingPlayerInput
    /\ submitted' = [submitted EXCEPT !["player_input"] =
                        [called |-> i,
                         accepted |-> IF sending THEN i ELSE @.accepted]]
    /\ UNCHANGED <<enabled, serverPhysicsEnabled, entityBuffers, localEntities,
                   hasStateCallback, pendingVehicleInput, currentVehicleId,
                   lastInputSendTime, statesReceived, clock, notified, skipped,
                   sentInputs>>
    /\ UNCHANGED <<txLog, seatVars>>
    /\ UNCHANGED notInput

\* sendVehicleInput(vehicleId, input)
SendVehicleInput(v, i) ==
    /\ currentVehicleId' = IF sending THEN v ELSE currentVehicleId
    /\ pendingVehicleInput' = IF sending THEN VehicleInput(v, i)
                                       ELSE pendingVehicleInput
    /\ submitted' = [submitted EXCEPT !["vehicle_input"] =
                        [called |-> VehicleInput(v, i),
                         accepted |-> IF sending THEN VehicleInput(v, i)
                                                 ELSE @.accepted]]
    /\ UNCHANGED <<enabled, serverPhysicsEnabled, entityBuffers, localEntities,
                   hasStateCallback, pendingPlayerInput,
                   lastInputSendTime, statesReceived, clock, notified, skipped,
                   sentInputs>>
    /\ UNCHANGED <<txLog, seatVars>>
    /\ UNCHANGED notInput

\* clearVehicleInput()
ClearVehicleInput ==
    /\ currentVehicleId # 0 \/ pendingVehicleInput # 0
    /\ currentVehicleId' = 0
    /\ pendingVehicleInput' = 0
    /\ UNCHANGED <<enabled, serverPhysicsEnabled, entityBuffers, localEntities,
                   hasStateCallback, pendingPlayerInput,
                   lastInputSendTime, statesReceived, clock, notified, skipped,
                   sentInputs>>
    /\ UNCHANGED <<submitted, txLog, seatVars>>
    /\ UNCHANGED notInput

\* txLog after the messages msgs were sent at time at: per message type the
\* time of its last transmission and the gap to the one before
logged(log, msgs, at) ==
    [t \in InputTypes |->
        IF \E m \in msgs : m[1] = t
        THEN [at |-> at,
              gap |-> IF log[t].at = NoTime THEN NoTime ELSE at - log[t].at]
        ELSE log[t]]

\* update(delta), its transmissions recorded
UpdateInputs ==
    /\ update
    /\ txLog' = logged(txLog, sentInputs', clock)
    /\ UNCHANGED <<submitted, seatVars>>
    /\ UNCHANGED notInput

\* initialize() and setServerPhysicsEnabled(..) of the client
SwitchClient ==
    /\ \/ /\ ~enabled
          /\ enabled' = TRUE
          /\ UNCHANGED serverPhysicsEnabled
       \/ /\ serverPhysicsEnabled' = ~serverPhysicsEnabled
          /\ UNCHANGED enabled
    /\ UNCHANGED <<entityBuffers, localEntities,
                   hasStateCallback, pendingPlayerInput, pendingVehicleInput,
                   currentVehicleId, lastInputSendTime, statesReceived, clock,
                   notified, skipped, sentInputs>>
    /\ UNCHANGED <<submitted, txLog, seatVars>>
    /\ UNCHANGED notInput

\* time passes
InputTick ==
    /\ clock < MaxClock
    /\ clock' = clock + 1
    /\ UNCHANGED <<enabled, serverPhysicsEnabled, entityBuffers, localEntities,
                   hasStateCallback, pendingPlayerInput, pendingVehicleInput,
                   currentVehicleId, lastInputSendTime, statesReceived,
                   notified, skipped, sentInputs>>
    /\ UNCHANGED <<submitted, txLog, seatVars>>
    /\ UNCHANGED notInput

\* enterVehicle(vehicle, seat) with the client attached: the seat is taken
\* and physicsNetworkClient.currentVehicleId = vehicle.networkId
enterVehicleAttached(seat) ==
    /\ enterVehicle(seat)
    /\ currentVehicleId' = networkId(seat[1])

\* what leaving the seat does to the client: exitSeat() does not touch it
\* (exitVehicle(), which calls clearVehicleInput(), has no caller)
clientAfterExit ==
    UNCHANGED <<currentVehicleId, pendingVehicleInput>>

\* toggleVehicleSeat() with the client attached
ToggleSeatAttached ==
    /\ IF currentVehicle # NoVehicle
       THEN /\ exitSeat
            /\ clientAfterExit
            /\ lastSeatCall' = Call("exit", NoSeat, FALSE, "", "")
       ELSE /\ \E seat \in {s \in Seats : ~occupied(s)} :
                  /\ enterVehicleAttached(seat)
                  /\ lastSeatCall' = Call("toggle", seat, FALSE, "", "")
            /\ UNCHANGED pendingVehicleInput
    /\ UNCHANGED <<hoverVehicle, panel>>
    /\ UNCHANGED <<enabled, serverPhysicsEnabled, entityBuffers, localEntities,
                   hasStateCallback, pendingPlayerInput,
                   lastInputSendTime, statesReceived, clock, notified, skipped,
                   sentInputs>>
    /\ UNCHANGED <<submitted, txLog>>
    /\ UNCHANGED notInput

\* the 'exit' button of the in-vehicle seat panel with the client attached
ExitButtonAttached ==
    /\ currentVehicle # NoVehicle
    /\ exitSeat
    /\ clientAfterExit
    /\ lastSeatCall' = Call("exit", NoSeat, FALSE, "", "")
    /\ UNCHANGED <<hoverVehicle, panel>>
    /\ UNCHANGED <<enabled, serverPhysicsEnabled, entityBuffers, localEntities,
                   hasStateCallback, pendingPlayerInput,
                   lastInputSendTime, statesReceived, clock, notified, skipped,
                   sentInputs>>
    /\ UNCHANGED <<submitted, txLog>>
    /\ UNCHANGED notInput

NextInput ==
    \/ SwitchClient
    \/ \E i \in Inputs : SendPlayerInput(i)
    \/ \E v \in NetworkIds, i \in Inputs : SendVehicleInput(v, i)
    \/ ClearVehicleInput
    \/ UpdateInputs
    \/ InputTick
    \/ ToggleSeatAttached
    \/ ExitButtonAttached


(***************************************************************************)
(* PhysicsSystem.resolveCollisions against one box collider met from the   *)
(* side (src/js/physics.js:181-235), for a player body and for a vehicle   *)
(* body (vehicle.body.isVehicle = true, vehicle-manager.js:356-360).       *)
(* Lengths are centimetres; the box is deeper in z than the body, so the   *)
(* z overlap is never the smallest one.  The box spans x in 0..BoxWidth.   *)
(***************************************************************************)
BoxWidth == 1000

\* a body registered by the player controller (part_000:23-29) or by
\* VehicleManager.spawnTank (vehicle-manager.js:166-179)
contactBodyOf(isVehicle, x, y, v) ==
    [isVehicle |-> isVehicle, x |-> x, y |-> y, velocity |-> v,
     radius |-> IF isVehicle THEN 300 ELSE radius,
     height |-> IF isVehicle THEN 250 ELSE height]

BoxTops    == {50, 100, 400}    \* box.max.y; the box stands on y = 0
FootLevels == {0, 40, 380}      \* body.position.y
Overlaps   == {10, 60, 350}     \* how far the body reaches into the box in x
ContactVelocities == {<<500, 0>>, <<500, -300>>, <<0, -300>>}

NoContact == [branch |-> "none", onGround |-> FALSE]

ContactInit ==
    /\ \E isVehicle \in BOOLEAN, top \in BoxTops, y \in FootLevels,
          d \in Overlaps, v \in ContactVelocities :
          /\ contactBox = [minX |-> 0, maxX |-> BoxWidth, minY |-> 0, maxY |-> top]
          /\ contactBody =
                contactBodyOf(isVehicle,
                              d - (IF isVehicle THEN 300 ELSE radius), y, v)
    /\ contactResult = NoContact

ContactIdle ==
    /\ contactBox = [minX |-> 0, maxX |-> BoxWidth, minY |-> 0, maxY |-> 50]
    /\ contactBody = contactBodyOf(FALSE, 0, 0, <<0, 0>>)
    /\ contactResult = NoContact

\* the branch resolveCollisions takes for body b and the box, and what it
\* leaves in the body: "step" is the steppable-ledge branch, "pushX" and
\* "pushY" the push-outs along x and y, "none" no overlap
resolveBoxContact(b, box) ==
    LET overlapX == Min2(b.x + b.radius, box.maxX) - Max2(b.x - b.radius, box.minX)
        overlapY == Min2(b.y + b.height, box.maxY) - Max2(b.y, box.minY)
        minPenetration == Min2(overlapX, overlapY)
        canStep == (box.maxY - b.y) <= stepHeight /\ (b.y + b.height) > box.minY
        cx == sign(2 * b.x - (box.minX + box.maxX))
        cy == sign((2 * b.y + b.height) - (box.minY + box.maxY))
        dirX == IF cx = 0 THEN 1 ELSE cx
        dirY == IF cy = 0 THEN 1 ELSE cy
    IN  IF overlapX <= 0 \/ overlapY <= 0
        THEN [body |-> b, branch |-> "none", onGround |-> FALSE]
        ELSE IF minPenetration = overlapX /\ canStep
        THEN [body |-> [b EXCEPT !.y = box.maxY,
                                 !.velocity = <<@[1], IF @[2] < 0 THEN 0 ELSE @[2]>>],
              branch |-> "step", onGround |-> TRUE]
        ELSE IF minPenetration = overlapX
        THEN [body |-> [b EXCEPT !.x = @ + overlapX * dirX,
                                 !.velocity = <<0, @[2]>>],
              branch |-> "pushX", onGround |-> FALSE]
        ELSE [body |-> [b EXCEPT !.y = @ + overlapY * dirY,
                                 !.velocity = <<@[1], IF @[2] * dirY < 0 THEN 0 ELSE @[2]>>],
              branch |-> "pushY", onGround |-> dirY > 0]

\* resolveCollisions(body, [box]) as integrate calls it
ResolveContact ==
    /\ LET r == resolveBoxContact(contactBody, contactBox)
       IN  /\ contactBody' = r.body
           /\ contactResult' = [branch |-> r.branch, onGround |-> r.onGround]
    /\ UNCHANGED contactBox
    /\ UNCHANGED notContact

\* a body that was pushed out of the box is driven into it again between
\* two steps: position.x advances
DriveOn(d) ==
    /\ contactResult.branch = "pushX"
    /\ contactBody' = [contactBody EXCEPT !.x = @ + d]
    /\ contactResult' = NoContact
    /\ UNCHANGED contactBox
    /\ UNCHANGED notContact

NextContact ==
    \/ ResolveContact
    \/ \E d \in Overlaps : DriveOn(d)


(***************************************************************************)
(* The server's physics loop (src/unnamed/part_003:176-226): physicsLoop   *)
(* steps every world of physicsWorlds and broadcasts on its own timer.     *)
(* Time is counted in units of 10 ms.  A world is represented by its       *)
(* stepCount; the rooms that have clients and bodies at a broadcast are    *)
(* an input of the tick.                                                   *)
(***************************************************************************)
MaxServerTime == 11             \* Date.now() ranges over 0..MaxServerTime
MaxLoopTicks  == 4              \* physicsLoop runs per behaviour

broadcastInterval == 5          \* 1000 / networkBroadcastRate = 50 ms

NoBroadcast == [at |-> NoTime, gap |-> NoTime, bodies |-> EmptyMap]

LoopInit ==
    /\ serverNow = 0
    /\ lastPhysicsTime = 0
    /\ lastBroadcastTime = 0
    /\ loopWorlds = EmptyMap
    /\ loopTicks = 0
    /\ lastBroadcast = NoBroadcast

\* the broadcast test of physicsLoop
broadcastDue_always(now, last) == TRUE

broadcastDue(now, last) == now - last >= broadcastInterval

\* world.step(delta) for every world of physicsWorlds
steppedWorlds(worlds) == [r \in DOMAIN worlds |-> worlds[r] + 1]

\* physicsLoop(), audience being the rooms of physicsWorlds that have a
\* client and a body when broadcastPhysicsState runs
PhysicsLoop(audience) ==
    /\ loopTicks < MaxLoopTicks
    /\ audience \subseteq DOMAIN loopWorlds
    /\ loopTicks' = loopTicks + 1
    /\ lastPhysicsTime' = serverNow
    /\ loopWorlds' = steppedWorlds(loopWorlds)
    /\ IF broadcastDue(serverNow, lastBroadcastTime)
       THEN /\ lastBroadcastTime' = serverNow
            /\ lastBroadcast' =
                  [at |-> serverNow,
                   gap |-> IF lastBroadcast.at = NoTime THEN NoTime
                           ELSE serverNow - lastBroadcast.at,
                   bodies |-> [r \in audience |-> loopWorlds'[r]]]
       ELSE /\ audience = {}
            /\ UNCHANGED <<lastBroadcastTime, lastBroadcast>>
    /\ UNCHANGED serverNow
    /\ UNCHANGED notLoop

\* initializePhysicsWorld(roomId): physicsWorlds.set(roomId, world)
WorldCreated(r) ==
    /\ r \notin DOMAIN loopWorlds
    /\ loopWorlds' = MapPut(loopWorlds, r, 0)
    /\ UNCHANGED <<serverNow, lastPhysicsTime, lastBroadcastTime, loopTicks,
                   lastBroadcast>>
    /\ UNCHANGED notLoop

\* destroyPhysicsWorld(roomId)
WorldDestroyed(r) ==
    /\ r \in DOMAIN loopWorlds
    /\ loopWorlds' = MapDelete(loopWorlds, r)
    /\ UNCHANGED <<serverNow, lastPhysicsTime, lastBroadcastTime, loopTicks,
                   lastBroadcast>>
    /\ UNCHANGED notLoop

\* time passes on the server
ServerTick ==
    /\ serverNow < MaxServerTime
    /\ serverNow' = serverNow + 1
    /\ UNCHANGED <<lastPhysicsTime, lastBroadcastTime, loopWorlds, loopTicks,
                   lastBroadcast>>
    /\ UNCHANGED notLoop

NextLoop ==
    \/ \E audience \in SUBSET RoomIds : PhysicsLoop(audience)
    \/ \E r \in RoomIds : WorldCreated(r)
    \/ \E r \in RoomIds : WorldDestroyed(r)
    \/ ServerTick


(***************************************************************************)
(* The body maps of one JoltPhysicsWorld (src/server/jolt-physics-world.js *)
(* :232-340, 718-731): bodies (body id -> body info) and entityBodies      *)
(* (entity id -> body id), driven by the create calls of the server's      *)
(* spawn handlers and by removeBody.                                       *)
(***************************************************************************)
MaxCreates == 4                 \* bodies created per behaviour

\* the entity ids bodies are created for: two players and a vehicle
BodyEntities == {PlayerEntity("c1"), PlayerEntity("c2"), VehicleEntity(1)}

BodiesInit == joltWorld = NewWorld

\* createCapsuleBody(entityId, ..) as handleSpawnPlayer calls it
CreateCapsuleBody(e) ==
    /\ e[1] = "player"
    /\ joltWorld.nextBodyId <= MaxCreates
    /\ joltWorld' = createBody(joltWorld, e)
    /\ UNCHANGED notBodies

\* createVehicle(entityId, ..), which creates its chassis with createBoxBody
CreateVehicle(e) ==
    /\ e[1] = "vehicle"
    /\ joltWorld.nextBodyId <= MaxCreates
    /\ joltWorld' = createBody(joltWorld, e)
    /\ UNCHANGED notBodies

\* removeBody(entityId)
RemoveBody(e) ==
    /\ joltWorld' = removeBody(joltWorld, e).world
    /\ joltWorld' # joltWorld
    /\ UNCHANGED notBodies

NextBodies ==
    \/ \E e \in BodyEntities : CreateCapsuleBody(e)
    \/ \E e \in BodyEntities : CreateVehicle(e)
    \/ \E e \in BodyEntities : RemoveBody(e)


InitBuffer == BufInit /\ CliInit /\ SeatInit /\ SrvInit /\ WorldInit /\ WeaponIdle /\ PhysIdle /\ TerrainIdle /\ NetSeatIdle /\ InputInit /\ ContactIdle /\ LoopInit /\ BodiesInit

SpecBuffer == InitBuffer /\ [][NextBuffer]_vars

InitClient == BufIdle /\ CliInit /\ SeatInit /\ SrvInit /\ WorldInit /\ WeaponIdle /\ PhysIdle /\ TerrainIdle /\ NetSeatIdle /\ InputInit /\ ContactIdle /\ LoopInit /\ BodiesInit

SpecClient == InitClient /\ [][NextClient]_vars

InitSeats == BufIdle /\ CliInit /\ SeatInit /\ SrvInit /\ WorldInit /\ WeaponIdle /\ PhysIdle /\ TerrainIdle /\ NetSeatIdle /\ InputInit /\ ContactIdle /\ LoopInit /\ BodiesInit

SpecSeats == InitSeats /\ [][NextSeats]_vars

InitServer == BufIdle /\ CliInit /\ SeatInit /\ SrvInit /\ WorldInit /\ WeaponIdle /\ PhysIdle /\ TerrainIdle /\ NetSeatIdle /\ InputInit /\ ContactIdle /\ LoopInit /\ BodiesInit

SpecServer == InitServer /\ [][NextServer]_vars

InitRelay == BufIdle /\ CliInit /\ SeatInit /\ SrvInit /\ WorldInit /\ WeaponIdle /\ PhysIdle /\ TerrainIdle /\ NetSeatIdle /\ InputInit /\ ContactIdle /\ LoopInit /\ BodiesInit

SpecRelay == InitRelay /\ [][NextRelay]_vars

InitWorld == BufIdle /\ CliInit /\ SeatInit /\ SrvInit /\ WorldInit /\ WeaponIdle /\ PhysIdle /\ TerrainIdle /\ NetSeatIdle /\ InputInit /\ ContactIdle /\ LoopInit /\ BodiesInit

SpecWorld == InitWorld /\ [][NextWorld]_vars

InitWeapons == BufIdle /\ CliInit /\ SeatInit /\ SrvInit /\ WorldInit /\ WeaponInit /\ PhysIdle /\ TerrainIdle /\ NetSeatIdle /\ InputInit /\ ContactIdle /\ LoopInit /\ BodiesInit

SpecWeapons == InitWeapons /\ [][NextWeapons]_vars

InitPhysics == BufIdle /\ CliInit /\ SeatInit /\ SrvInit /\ WorldInit /\ WeaponIdle /\ PhysInit /\ TerrainIdle /\ NetSeatIdle /\ InputInit /\ ContactIdle /\ LoopInit /\ BodiesInit

SpecPhysics == InitPhysics /\ [][NextPhysics]_vars

InitTerrain == BufIdle /\ CliInit /\ SeatInit /\ SrvInit /\ WorldInit /\ WeaponIdle /\ PhysIdle /\ TerrainInit /\ NetSeatIdle /\ InputInit /\ ContactIdle /\ LoopInit /\ BodiesInit

SpecTerrain == InitTerrain /\ [][NextTerrain]_vars

InitNetSeats == BufIdle /\ CliInit /\ SeatInit /\ SrvInit /\ WorldInit /\ WeaponIdle /\ PhysIdle /\ TerrainIdle /\ NetSeatInit /\ InputInit /\ ContactIdle /\ LoopInit /\ BodiesInit

SpecNetSeats == InitNetSeats /\ [][NextNetSeats]_vars

InitInput == BufIdle /\ CliInit /\ SeatInit /\ SrvInit /\ WorldInit /\ WeaponIdle /\ PhysIdle /\ TerrainIdle /\ NetSeatIdle /\ InputInit /\ ContactIdle /\ LoopInit /\ BodiesInit

SpecInput == InitInput /\ [][NextInput]_vars

InitContact == BufIdle /\ CliInit /\ SeatInit /\ SrvInit /\ WorldInit /\ WeaponIdle /\ PhysIdle /\ TerrainIdle /\ NetSeatIdle /\ InputInit /\ ContactInit /\ LoopInit /\ BodiesInit

SpecContact == InitContact /\ [][NextContact]_vars

InitLoop == BufIdle /\ CliInit /\ SeatInit /\ SrvInit /\ WorldInit /\ WeaponIdle /\ PhysIdle /\ TerrainIdle /\ NetSeatIdle /\ InputInit /\ ContactIdle /\ LoopInit /\ BodiesInit

SpecLoop == InitLoop /\ [][NextLoop]_vars

InitBodies == BufIdle /\ CliInit /\ SeatInit /\ SrvInit /\ WorldInit /\ WeaponIdle /\ PhysIdle /\ TerrainIdle /\ NetSeatIdle /\ InputInit /\ ContactIdle /\ LoopInit /\ BodiesInit

SpecBodies == InitBodies /\ [][NextBodies]_vars

(***************************************************************************)
(* Claims about PhysicsStateBuffer                                         *)
(***************************************************************************)
Newest == states[Len(states)]

\* C1: after any sequence of addState calls the buffer holds at most
\* maxStates samples, and they are exactly the most recently added ones in
\* arrival order: with n calls so far the buffer holds arrivals
\* n-len+1 .. n, where len = min(n, maxStates).
C1_RingBuffer ==
    /\ Len(states) <= maxStates
    /\ Len(states) = Min2(addCount, maxStates)
    /\ \A i \in 1..Len(states) : states[i].id = addCount - Len(states) + i

C1_Witness ==
    /\ addCount > maxStates + 1
    /\ Len(states) = maxStates
    /\ maxStates >= 2

\* C2: on a buffer holding exactly one sample getInterpolatedState returns
\* that sample itself for every renderTime, and on an empty buffer it
\* returns null.
C2_SingleOrNull ==
    lastQuery.asked =>
        /\ Len(states) = 1 => lastQuery.result = Returned("state", states[1])
        /\ Len(states) = 0 => lastQuery.result.kind = "null"

C2_Witness ==
    /\ lastQuery.asked
    /\ Len(states) = 1
    /\ lastQuery.renderTime > states[1].timestamp
    /\ lastQuery.result.sample = states[1]

\* The result lies at most half of the displacement a -> b beyond b:
\* (x - b.x) measured along (b.x - a.x) is at most |b.x - a.x| / 2.
OvershootBounded(r) ==
    2 * (r.xn - r.after.x * r.xd) * (r.after.x - r.before.x)
        <= (r.after.x - r.before.x) * (r.after.x - r.before.x) * r.xd

ExtrapolatedFromLastTwo(r) ==
    /\ r.kind = "lerp"
    /\ r.before = states[Len(states) - 1]
    /\ r.after = Newest
    /\ 2 * r.tn <= 3 * r.td
    /\ r.tn >= 0
    /\ OvershootBounded(r)

\* C3 as stated: whenever renderTime is later than the timestamp of the
\* newest (last received) sample and the buffer holds at least two samples,
\* the result is extrapolated from the last two samples with t <= 1.5.
C3_Original ==
    (lastQuery.asked /\ Len(states) >= 2
        /\ lastQuery.renderTime > Newest.timestamp)
    => ExtrapolatedFromLastTwo(lastQuery.result)

\* C3 (amended): the same, when in addition no adjacent pair of the buffer
\* brackets renderTime (always so when timestamps are non-decreasing in
\* arrival order): the result is the lerp of the last two samples with
\* 0 <= t <= 1.5 and lies at most half their displacement beyond the newest.
C3_Extrapolation ==
    (lastQuery.asked /\ Len(states) >= 2
        /\ lastQuery.renderTime > Newest.timestamp
        /\ Brackets(states, lastQuery.renderTime) = {})
    => ExtrapolatedFromLastTwo(lastQuery.result)

\* renderTime so far ahead that the raw factor exceeds 1.5 and is clamped
C3_Witness ==
    /\ lastQuery.asked
    /\ Len(states) >= 2
    /\ Brackets(states, lastQuery.renderTime) = {}
    /\ Newest.timestamp > states[Len(states) - 1].timestamp
    /\ lastQuery.renderTime - states[Len(states) - 1].timestamp
          > 2 * (Newest.timestamp - states[Len(states) - 1].timestamp)
    /\ Newest.x # states[Len(states) - 1].x
    /\ lastQuery.result.tn = 3 /\ lastQuery.result.td = 2

(***************************************************************************)
(* Claims about PhysicsNetworkClient                                       *)
(***************************************************************************)
\* C4: while an entity is flagged local, no step appends a state to a
\* buffer for it (nor creates one), and an update call never invokes
\* onEntityStateUpdate for it.
C4_LocalExclusion ==
    [][\A e \in localEntities :
          /\ e \in DOMAIN entityBuffers' =>
                /\ e \in DOMAIN entityBuffers
                /\ entityBuffers'[e] = entityBuffers[e]
          /\ Update => e \notin notified']_vars

\* a local entity that has a buffer from before it was flagged was skipped
\* by a later delivery, and an update has notified about another entity only
C4_Witness ==
    \E e \in localEntities :
        /\ e \in skipped
        /\ e \in DOMAIN entityBuffers
        /\ Len(entityBuffers[e]) = 1
        /\ statesReceived = 2
        /\ notified # {}
        /\ e \notin notified

(***************************************************************************)
(* Claims about seat control                                               *)
(***************************************************************************)
\* the step is an attempt to enter a seat that was occupied when it was made
OccupiedAttempt == lastSeatCall'.target # NoSeat /\ lastSeatCall'.occupied

SeatStateUnchanged ==
    UNCHANGED <<seatOccupant, currentVehicle, currentSeat>>

Quiescent == awaiting = {} /\ \A c \in Clients : closeEvents[c] = 0

\* C6 as stated: once all handlers have finished, every room still present
\* in rooms has at least one member whose connection is still open.
C6_Original ==
    (~crashed /\ Quiescent) =>
        \A r \in DOMAIN rooms : \E c \in SeqSet(rooms[r].clients) : sockOpen[c]

\* C7 as stated: an entry of rooms either has its physics world or is still
\* being initialized by a suspended handshake, and no client is a member of
\* a room that has no physics world.
C7_Original ==
    ~crashed =>
        \A r \in DOMAIN rooms :
            /\ r \in DOMAIN physicsWorlds \/ \E c \in Clients : <<c, r>> \in awaiting
            /\ rooms[r].clients # <<>> => r \in DOMAIN physicsWorlds

\* the step is handleDisconnect(c), run by either a 'disconnect' message or
\* an 'error'/'close' event
DisconnectStep(c) == DisconnectMsg(c) \/ OnSocketEvent(c)

C9_BoundedSubSteps ==
    /\ [](/\ lastStep.steps <= maxSubSteps
          /\ accumulator >= 0
          /\ accumulator <= maxSubSteps * fixedTimeStep)
    /\ [][(\E deltaTime \in 0..MaxDeltaTime : Step(deltaTime)) =>
            LET left == accumulator + lastStep'.deltaTime
                            - lastStep'.steps * fixedTimeStep
            IN  IF ~lastStep'.ran
                THEN accumulator' = accumulator /\ lastStep'.steps = 0
                ELSE /\ left >= 0
                     /\ lastStep'.steps < maxSubSteps => left < fixedTimeStep
                     /\ accumulator' = IF left > maxSubSteps * fixedTimeStep
                                       THEN 0 ELSE left]_vars

\* a call that ran all maxSubSteps fixed steps and discarded the rest
C9_Witness ==
    /\ lastStep.ran
    /\ lastStep.steps = maxSubSteps
    /\ lastStep.deltaTime > maxSubSteps * fixedTimeStep
    /\ accumulator = 0

(***************************************************************************)
(* Claims about weapon cooldowns                                           *)
(***************************************************************************)
\* the cooldown field that gates weapon w of this vehicle
cooldownField(w) ==
    IF w = "mg" THEN mgCooldown
    ELSE IF w = "bomb" THEN bombCooldown
    ELSE weaponCooldown

FireStep == \E seatRole \in SeatRoles : FireWeapon(seatRole)

UpdateStep == \E delta \in 0..MaxFrameDelta : VehicleUpdate(delta)

\* C10: while a weapon's cooldown is > 0 a fireWeapon/dropBomb call does not
\* fire it and leaves its cooldown alone; a shot sets the weapon's cooldown
\* to its fixed value; update(delta) only lowers cooldowns, never below 0;
\* so a weapon fires only when at least its cooldown of simulated time has
\* passed since its previous shot.
C10_CooldownGating ==
    [][\A w \in WeaponsOf(vehicleType) :
         /\ (FireStep /\ cooldownField(w) > 0) =>
                /\ w \notin lastFire'.emitted
                /\ cooldownField(w)' = cooldownField(w)
         /\ (FireStep /\ w \in lastFire'.emitted) =>
                /\ cooldownField(w)' = CooldownOf(w)
                /\ elapsed[w] >= CooldownOf(w)
         /\ UpdateStep =>
                /\ cooldownField(w)' <= cooldownField(w)
                /\ cooldownField(w)' >= 0
                /\ lastFire'.emitted = {}]_vars

\* the tank's cannon has just fired again, its previous shot being exactly
\* one cooldown of simulated time back
C10_Witness ==
    /\ vehicleType = "tank"
    /\ lastFire.op = "fire"
    /\ "cannon" \in lastFire.emitted
    /\ weaponCooldown = CannonCooldown
    /\ elapsed["cannon"] = 0
    /\ elapsed["mg"] > 0
    /\ elapsed["mg"] < MgCooldown

(***************************************************************************)
(* Claims about PhysicsSystem                                              *)
(***************************************************************************)
Speed2(v) == v[1] * v[1] + v[2] * v[2]

Stepped == lastIntegrate.delta >= 0

\* the vertical speed a resting body keeps from the bounce of its last step
RestBounce ==
    TruncDiv(TruncDiv(gravity * MaxDelta, TicksPerSecond) * bounciness, 400)

\* the body rests on its support: it is at its resting height and has no
\* velocity but what the bounce of the last step left
Resting(b) ==
    /\ b.position = desiredHeightAt(b.position, colliders)
    /\ b.velocity[1] = 0
    /\ b.velocity[2] \in 0..RestBounce

\* C11: after every step, whatever velocity the body had before it and
\* whether or not ground contact, bounce or step assist changed the velocity
\* after the clamp, the magnitude of body.velocity is at most
\* terminalVelocity.
C11_TerminalVelocity ==
    [][(\E delta \in 0..MaxDelta : PhysicsStep(delta))
        => Speed2(body'.velocity) <= terminalVelocity * terminalVelocity]_vars

\* a step clamped a velocity above terminalVelocity and the body then hit
\* the ground and bounced
C11_Witness ==
    /\ Stepped
    /\ Speed2(lastIntegrate.before.velocity) > terminalVelocity * terminalVelocity
    /\ lastIntegrate.before.velocity[2] < 0
    /\ body.grounded
    /\ body.velocity[2] > 0
    /\ Speed2(body.velocity) <= terminalVelocity * terminalVelocity

C13_Original ==
    (Stepped /\ lastIntegrate.before.noGravity
             /\ lastIntegrate.before.velocity = <<0, 0>>)
        => body.position = lastIntegrate.before.position


(***************************************************************************)
(* Claims about the terrain height cache                                   *)
(***************************************************************************)
\* C14 as stated: a call with the coordinates of the first call returns what
\* the first call returned, whatever was queried or cleared in between.
C14_Original ==
    (lastHeight.wx = firstHeight.wx /\ lastHeight.wz = firstHeight.wz)
        => lastHeight.height = firstHeight.height


(***************************************************************************)
(* Claims about the per-entity state buffers of PhysicsNetworkClient       *)
(***************************************************************************)
NonDecreasing(buf) ==
    \A i \in 1..(Len(buf) - 1) : buf[i].timestamp <= buf[i + 1].timestamp

ArrivalOrder(buf) ==
    \A i \in 1..(Len(buf) - 1) : buf[i].id < buf[i + 1].id

\* C15 as stated: in every entity's buffer the timestamps are non-decreasing
\* from the oldest to the newest entry and the entries are in arrival order.
C15_Original ==
    \A e \in DOMAIN entityBuffers :
        NonDecreasing(entityBuffers[e]) /\ ArrivalOrder(entityBuffers[e])

\* C15: every entity's buffer holds its states in the order in which the
\* physics_state messages arrived, whatever their timestamps are.
C15_ArrivalOrder ==
    \A e \in DOMAIN entityBuffers : ArrivalOrder(entityBuffers[e])

\* a message with an earlier timestamp arrived after one with a later
\* timestamp and was appended behind it
C15_Witness ==
    \E e \in DOMAIN entityBuffers :
        /\ Len(entityBuffers[e]) = 2
        /\ entityBuffers[e][1].timestamp > entityBuffers[e][2].timestamp
        /\ entityBuffers[e][1].id < entityBuffers[e][2].id


(***************************************************************************)
(* Further claims about PhysicsStateBuffer.getInterpolatedState            *)
(***************************************************************************)
\* C16: when the buffer holds at least two states, no adjacent pair brackets
\* renderTime and renderTime is not later than the last received state,
\* getInterpolatedState returns the last received state as it is.
C16_FallbackToLatest ==
    (/\ lastQuery.asked
     /\ Len(states) >= 2
     /\ Brackets(states, lastQuery.renderTime) = {}
     /\ lastQuery.renderTime <= Newest.timestamp)
        => /\ lastQuery.result.kind = "state"
           /\ lastQuery.result.sample = Newest
           /\ lastQuery.result.xn = Newest.x * lastQuery.result.xd

\* such a query was answered for a buffer whose last received state is not
\* its first one
C16_Witness ==
    /\ lastQuery.asked
    /\ Len(states) >= 2
    /\ Brackets(states, lastQuery.renderTime) = {}
    /\ lastQuery.renderTime <= Newest.timestamp
    /\ states[1] # Newest
    /\ lastQuery.result.sample = Newest

\* C20: when some adjacent pair brackets renderTime, the result is the
\* linear interpolation of the first such pair at
\* t = (renderTime - before.timestamp) / (after.timestamp - before.timestamp)
\* (t = 0 for equal timestamps), t lies in [0, 1] and the position lies
\* between the positions of the two states.
C20_BracketInterpolation ==
    (lastQuery.asked /\ Len(states) >= 2
        /\ Brackets(states, lastQuery.renderTime) # {})
    => LET i == FirstBracket(states, lastQuery.renderTime)
           a == states[i]
           b == states[i + 1]
           r == lastQuery.result
           duration == b.timestamp - a.timestamp
       IN  /\ r.kind = "lerp"
           /\ r.before = a /\ r.after = b
           /\ r.td > 0 /\ 0 <= r.tn /\ r.tn <= r.td
           /\ IF duration > 0
              THEN r.tn * duration = (lastQuery.renderTime - a.timestamp) * r.td
              ELSE r.tn = 0
           /\ r.xd > 0
           /\ r.xn * r.td = (a.x * r.td + (b.x - a.x) * r.tn) * r.xd
           /\ Min2(a.x, b.x) * r.xd <= r.xn
           /\ r.xn <= Max2(a.x, b.x) * r.xd

\* a query half way between two states with different positions returned
\* the position half way between theirs
C20_Witness ==
    /\ lastQuery.asked
    /\ Len(states) >= 2
    /\ Brackets(states, lastQuery.renderTime) # {}
    /\ lastQuery.result.kind = "lerp"
    /\ lastQuery.result.before.x # lastQuery.result.after.x
    /\ 2 * lastQuery.result.tn = lastQuery.result.td
    /\ 2 * lastQuery.result.xn =
          (lastQuery.result.before.x + lastQuery.result.after.x)
              * lastQuery.result.xd


(***************************************************************************)
(* Claims about the seats of a networked vehicle                           *)
(***************************************************************************)
\* the players holding seat s of the vehicle, over all clients
holders(s) == {c \in GameClients : netSeatOccupant[c][s] # Nobody}

\* C17 as stated: whatever the players on the different clients do, no seat
\* of the networked vehicle is held by two players at the same time.
C17_Original == \A s \in TankSeats : Cardinality(holders(s)) <= 1


(***************************************************************************)
(* Claims about chat commands and broadcasts of the relay server           *)
(***************************************************************************)
InvalidTypeReply(c) == Msg(c, "chat_message", System("Invalid vehicle type."))

\* C18: a '/spawnvehicle <type>' command whose type is not jeep, tank or
\* helicopter sends one System chat message to the issuing client and
\* nothing else: rooms (and their vehicles) and physics worlds stay as they
\* are, no entity_spawn is sent and the connection stays open.
C18_InvalidSpawnCommand ==
    [][\A c \in Clients, type \in CommandTypes \ {"jeep", "tank", "helicopter"} :
          ChatCommand(c, type) =>
              /\ sent' = {InvalidTypeReply(c)}
              /\ UNCHANGED <<rooms, physicsWorlds, sockOpen, clientRooms,
                             clientInfo>>]_vars

\* the command came from a spawned player in a room with a physics world,
\* for whom a valid type would have spawned a vehicle
C18_Witness ==
    /\ lastCall.op = "invalidType"
    /\ lastCall.room \in DOMAIN rooms
    /\ lastCall.room \in DOMAIN physicsWorlds
    /\ lastCall.client \in rooms[lastCall.room].players
    /\ {v \in rooms[lastCall.room].vehicles : v[1] = "spawned"} = {}
    /\ sent = {InvalidTypeReply(lastCall.client)}

\* C19 as stated: a relayed message reaches only open sockets other than
\* the sender whose current room is the sender's current room, and a room's
\* physics_state reaches only sockets whose current room is that room.
C19_Original ==
    [][/\ \A c \in Clients :
             RelayBroadcast(c) =>
                 \A m \in sent' : /\ m.to # c
                                  /\ sockOpen[m.to]
                                  /\ clientRooms[m.to] = clientRooms[c]
       /\ BroadcastPhysicsState =>
             \A m \in sent' : clientRooms[m.to] = m.about[2]]_vars

\* every recorded gap between two transmissions of one message type
Throttled ==
    \A t \in InputTypes : txLog[t].gap = NoTime \/ txLog[t].gap >= inputSendRate

\* an update() that transmitted at least one input message
Transmits == txLog' # txLog

\* C21 as stated: consecutive transmissions of one input message type are
\* at least inputSendRate apart, and a transmitted input is the one passed
\* to the most recent sendPlayerInput (sendVehicleInput) call.
C21_Original ==
    [][/\ Throttled'
       /\ Transmits => \A m \in sentInputs' : m[2] = submitted[m[1]].called]_vars

\* C21: consecutive transmissions of player_input (of vehicle_input) are at
\* least inputSendRate apart whatever the order of sendPlayerInput,
\* sendVehicleInput, clearVehicleInput and update calls, and a transmitted
\* input is the one passed to the most recent call made while the client
\* was enabled with server physics on.
C21_Throttle ==
    [][/\ Throttled'
       /\ Transmits => \A m \in sentInputs' : m[2] = submitted[m[1]].accepted]_vars

\* player_input went out twice and vehicle_input once, and the last
\* sendPlayerInput call was dropped
C21_Witness ==
    /\ txLog["player_input"].gap # NoTime
    /\ txLog["vehicle_input"].at # NoTime
    /\ submitted["player_input"].called # submitted["player_input"].accepted

\* a step in which the player leaves the seat it was in
LeavesVehicle == currentVehicle # NoVehicle /\ currentVehicle' = NoVehicle

\* C28 as stated: leaving a vehicle clears the client's currentVehicleId
\* and pending vehicle input, and player_input is transmitted only while
\* the player is in no seat.
C28_Original ==
    [][/\ LeavesVehicle => currentVehicleId' = 0 /\ pendingVehicleInput' = 0
       /\ Transmits /\ (\E m \in sentInputs' : m[1] = "player_input")
             => currentVehicle = NoVehicle]_vars

\* C22 as stated: resolveCollisions never takes the steppable-ledge branch
\* for a body flagged as a vehicle, so a vehicle is never snapped up onto a
\* box it meets from the side.
C22_Original ==
    contactBody.isVehicle => contactResult.branch # "step"

\* a step in which physicsLoop ran
LoopRan == loopTicks' = loopTicks + 1

\* a step in which physics_state was broadcast
Broadcasts == lastBroadcast' # lastBroadcast

\* C23: every physicsLoop run calls step on every world of physicsWorlds;
\* physics_state goes out only in a run at least broadcastInterval after
\* the previous broadcast (after the start of the server for the first
\* one), so two broadcasts are never closer than that however often the
\* loop runs; and what is broadcast for a room is its world after the step
\* of the same run.
C23_BroadcastDecoupled ==
    [][/\ LoopRan =>
             \A r \in DOMAIN loopWorlds : loopWorlds'[r] = loopWorlds[r] + 1
       /\ Broadcasts =>
             /\ LoopRan
             /\ serverNow - (IF lastBroadcast.at = NoTime THEN 0
                             ELSE lastBroadcast.at) >= broadcastInterval
             /\ lastBroadcast'.gap = NoTime \/ lastBroadcast'.gap >= broadcastInterval
             /\ \A r \in DOMAIN lastBroadcast'.bodies :
                   /\ lastBroadcast'.bodies[r] = loopWorlds[r] + 1
                   /\ lastBroadcast'.bodies[r] >= 1]_vars

\* the loop ran more often than it broadcast: two broadcasts went out, the
\* second with the state of a room, in four runs
C23_Witness ==
    /\ lastBroadcast.gap # NoTime
    /\ lastBroadcast.bodies # EmptyMap
    /\ loopTicks >= 4

\* C24: after any sequence of height queries and cache clears HEIGHT_CACHE
\* holds at most HEIGHT_CACHE_LIMIT + 1 entries.
C24_CacheBounded ==
    Cardinality(DOMAIN HEIGHT_CACHE) <= HEIGHT_CACHE_LIMIT + 1

\* the cache is as full as it gets, its last entry put in by a query that
\* missed: the next miss clears it
C24_Witness ==
    /\ Cardinality(DOMAIN HEIGHT_CACHE) = HEIGHT_CACHE_LIMIT + 1
    /\ ~lastHeight.hit
    /\ cacheKey(lastHeight.wx, lastHeight.wz) \in DOMAIN HEIGHT_CACHE

\* a step in which the handshake of c into r completes
JoinCompletes(c, r) ==
    /\ handshakes' # handshakes \/ awaiting' # awaiting
    /\ lastCall' = Ran("join", c, r, FALSE)

\* the vehicles a step adds to room r
NewVehicles(r) ==
    IF r \in DOMAIN rooms /\ r \in DOMAIN rooms'
    THEN rooms'[r].vehicles \ rooms[r].vehicles
    ELSE {}

\* C25 as stated: a client whose handshake into a room completes is sent
\* entity_spawn for every vehicle of the room, and the default vehicles a
\* room gets when its initialization ends are sent to every client that
\* joined while the initialization was under way.
C25_Original ==
    [][\A r \in RoomIds :
          /\ \A c \in Clients :
                JoinCompletes(c, r) =>
                    \A v \in rooms'[r].vehicles :
                       Msg(c, "entity_spawn", v) \in sent'
          /\ \A v \in NewVehicles(r) :
                \A x \in SeqSet(rooms'[r].clients) :
                   sockOpen[x] => Msg(x, "entity_spawn", v) \in sent']_vars

\* C26 as stated: whenever no handshake is suspended in the initialization
\* of a world, physicsWorlds and rooms have the same keys: every room has
\* its world and no world outlives its room.
C26_Original ==
    (~crashed /\ awaiting = {}) => DOMAIN physicsWorlds = DOMAIN rooms

\* C27 as stated: a socket is in the client set of a room exactly when
\* clientRooms maps it to that room, so it is a member of at most one room.
C27_Original ==
    \A c \in Clients : \A r \in DOMAIN rooms :
        c \in SeqSet(rooms[r].clients) <=> clientRooms[c] = r

\* C29 as stated: entityBodies and bodies are in one-to-one correspondence:
\* every entity id maps to a body of bodies, and every body of bodies is
\* the body of exactly one entity id.
C29_Original ==
    /\ \A e \in DOMAIN joltWorld.entityBodies :
          joltWorld.entityBodies[e] \in joltWorld.bodies
    /\ \A b \in joltWorld.bodies :
          Cardinality({e \in DOMAIN joltWorld.entityBodies :
                          joltWorld.entityBodies[e] = b}) = 1

\* C30 as stated: a room that has a client has one of its current clients
\* as its host.
C30_Original ==
    \A r \in DOMAIN rooms :
        rooms[r].clients # <<>> =>
            rooms[r].hostClientId \in SeqSet(rooms[r].clients)


=============================================================================
